---- MODULE Spec2Model ----
(***************************************************************************)
(* Model of the rust-synth voice engine: the ADSR Envelope                 *)
(* (src/structs/envelope.rs), the Note voice (src/structs/note.rs), the    *)
(* voice pool shared by the MIDI handlers (src/main.rs, src/midi/mod.rs,   *)
(* src/lib.rs) and the audio callbacks (src/main.rs, src/lib.rs).          *)
(*                                                                         *)
(* f32 values are modelled as tagged fixed-point numbers: a finite value   *)
(* is an integer count of quanta, and the IEEE specials (+inf, -inf, NaN,  *)
(* -0.0) are kept as separate kinds so that a division by zero is          *)
(* observable.  Amplitudes (levels, sustain, velocity, increments) are     *)
(* counted in quanta of 1/One.  Times are counted in units of 10 ms and    *)
(* sample rates in samples per 100 ms, so time * sample_rate counts        *)
(* samples in quanta of 1/TimeScale.                                       *)
(*                                                                         *)
(* The band-limited Oscillator (src/audio/oscillator.rs,                   *)
(* src/structs/note.rs) keeps its phase in quanta of 1/PhaseQ of a cycle,  *)
(* and its frequencies are counted in such quanta per 100 ms.  The         *)
(* WavetableOscillator (src/audio/wavetable.rs) reads a sine table of      *)
(* 2^TableBits entries that is built once behind a OnceLock.               *)
(*                                                                         *)
(* Where a result turns on the rounding of f32 (the sample counts of the   *)
(* default ADSR, the alpha of the one-pole low-pass) values are held as    *)
(* exact IEEE binary32 numbers (kind "b32"), rounded to nearest even.      *)
(*                                                                         *)
(* Spec drives the voice pool with every handler; SpecSteady is the pool   *)
(* at a settled sample rate (MIDI and audio callbacks only) and SpecWave   *)
(* adds the wave type selectors; SpecEnv*, SpecAdsr, SpecOsc, SpecFilter   *)
(* and SpecWavetable drive one Envelope, Oscillator, filter or             *)
(* WavetableOscillator directly; SpecClip and SpecTriangle apply soft_clip *)
(* and the triangle wave to single values; SpecTable runs the threads      *)
(* that create WavetableOscillators and SpecLocks the threads that lock    *)
(* the Mutexes of src/gui.rs.                                              *)
(***************************************************************************)
EXTENDS Integers, Sequences, FiniteSets, TLC

\* ---------------------------------------------------------------- bounds
\* amplitude quanta per 1.0
One == 1000
\* time * sample_rate quanta per sample
TimeScale == 10
\* largest time argument tried on set_adsr, in units of 100 ms
MaxTime == 1
\* largest device sample rate, in samples per 100 ms
MaxRate == 2
\* frames per output buffer
BufFrames == 3
\* frames per internal block of the audio callback (BUFFER_SIZE, 64 in the
\* source), scaled down with the buffer
BUFFER_SIZE == 2
\* interleaved channels of the output device
Channels == 2
\* threads that build WavetableOscillators concurrently
NumThreads == 2
\* number of distinct note identities the MIDI events use
NumNotes == 1
\* a runaway level is followed up to LevelCap * 1.0 in magnitude
LevelCap == 2
\* phase quanta per cycle of an oscillator; note frequencies are counted in
\* phase quanta per 100 ms, so frequency / sample_rate counts quanta per sample
PhaseQ == 8
MaxCalls == 3
TableBits == 3
\* soft_clip is tried on multiples of 1/ClipSteps up to ClipRange in magnitude
ClipSteps == 8
ClipRange == 10

\* ---------------------------------------------------------------- f32
Fin(n) == [k |-> "fin", v |-> n]
NegZero == [k |-> "nz", v |-> 0]
PosInf == [k |-> "inf", v |-> 0]
NegInf == [k |-> "ninf", v |-> 0]
NaN == [k |-> "nan", v |-> 0]

IsFinite(x) == x.k \in {"fin", "nz", "b32"}
IsNaN(x) == x.k = "nan"
IsZero(x) == IsFinite(x) /\ x.v = 0
\* sign bit: -1 for negative values, -0.0 and -inf
Sgn(x) == IF x.k \in {"nz", "ninf"} \/ (x.k \in {"fin", "b32"} /\ x.v < 0) THEN -1 ELSE 1
Abs(n) == IF n < 0 THEN -n ELSE n
\* integer quotient rounded toward zero
TruncDiv(a, b) == IF (a < 0) = (b < 0) THEN Abs(a) \div Abs(b) ELSE -(Abs(a) \div Abs(b))
\* a * b / d for d > 0, rounded toward zero, from the quotient and remainder of
\* a by d (the product a * b itself may exceed the 32 bits of a model integer)
MulQuot(a, b, d) ==
  LET mag == (Abs(a) \div d) * Abs(b) + ((Abs(a) % d) * Abs(b)) \div d
  IN IF (a < 0) = (b < 0) THEN mag ELSE -mag
SignedInf(s) == IF s < 0 THEN NegInf ELSE PosInf
SignedZero(s) == IF s < 0 THEN NegZero ELSE Fin(0)

\* ------------------------------------------------------- f32, bit for bit
\* A finite binary32 value held exactly: sign v (-1, 0 for zero, 1), significand
\* m with 2^23 <= m < 2^24, exponent e, value v * m * 2^e.  Every operation
\* rounds to nearest, ties to even, as the hardware does.  Exponents are not
\* limited, so overflow to infinity and subnormals are outside this kind.
MantissaBits == 24
Two23 == 2 ^ (MantissaBits - 1)
Two24 == 2 ^ MantissaBits
Two12 == 2 ^ (MantissaBits \div 2)
B32(s, m, e) == [k |-> "b32", v |-> s, m |-> m, e |-> e]
B32Zero == B32(0, 0, 0)
RECURSIVE B32Norm(_, _, _)
\* the value s * m * 2^e for 0 < m < 2^24, which is representable as it is
B32Norm(s, m, e) == IF m >= Two23 THEN B32(s, m, e) ELSE B32Norm(s, 2 * m, e - 1)
\* an integer of magnitude below 2^24 `as f32`
B32OfInt(n) == IF n = 0 THEN B32Zero ELSE B32Norm(IF n < 0 THEN -1 ELSE 1, Abs(n), 0)
\* the same value with the bits below the last place dropped (round toward zero)
B32Truncate(s, m, e, rem, unit) == B32(s, m, e)
\* s * (m + rem / unit) * 2^e with 0 <= rem < unit, rounded to nearest even
B32Round(s, m, e, rem, unit) ==
  LET up == 2 * rem > unit \/ (2 * rem = unit /\ m % 2 = 1)
      n == IF up THEN m + 1 ELSE m
  IN IF n = Two24 THEN B32(s, Two23, e + 1) ELSE B32(s, n, e)
\* |a| <= |b|
B32MagLe(a, b) ==
  IF a.v = 0 THEN TRUE
  ELSE IF b.v = 0 THEN FALSE
  ELSE a.e < b.e \/ (a.e = b.e /\ a.m <= b.m)
\* s * (|a| + |b|) for |a| >= |b| > 0; a b below a quarter of a's last place
\* leaves a
B32AddMag(s, a, b) ==
  LET k == a.e - b.e
      q == b.m \div (2 ^ k)
      r == b.m % (2 ^ k)
      sum == a.m + q
  IN IF k > MantissaBits + 1 THEN B32(s, a.m, a.e)
     ELSE IF sum < Two24 THEN B32Round(s, sum, a.e, r, 2 ^ k)
     ELSE B32Round(s, sum \div 2, a.e + 1, (sum % 2) * (2 ^ k) + r, 2 ^ (k + 1))
RECURSIVE B32Renorm(_, _, _, _, _)
\* s * (h + lo / 2^k) * 2^e with h < 2^24 and 0 <= lo < 2^k, normalised and
\* rounded
B32Renorm(s, h, lo, k, e) ==
  IF h >= Two23 THEN B32Round(s, h, e, lo, 2 ^ k)
  ELSE IF k = 0 THEN (IF h = 0 THEN B32Zero ELSE B32Norm(s, h, e))
  ELSE LET half == 2 ^ (k - 1)
           bit == IF lo >= half THEN 1 ELSE 0
       IN B32Renorm(s, 2 * h + bit, lo - bit * half, k - 1, e - 1)
\* s * (|a| - |b|) for |a| >= |b| > 0; a b far below a's last place counts as
\* the least amount that can still decide the rounding
B32SubMag(s, a, b) ==
  LET far == a.e - b.e > MantissaBits + 1
      k == IF far THEN MantissaBits + 1 ELSE a.e - b.e
      bm == IF far THEN 1 ELSE b.m
      q == bm \div (2 ^ k)
      r == bm % (2 ^ k)
  IN IF r = 0 THEN B32Renorm(s, a.m - q, 0, k, a.e)
     ELSE B32Renorm(s, a.m - q - 1, (2 ^ k) - r, k, a.e)
\* a + b
B32Add(a, b) ==
  IF a.v = 0 THEN b
  ELSE IF b.v = 0 THEN a
  ELSE IF a.v = b.v
       THEN (IF B32MagLe(b, a) THEN B32AddMag(a.v, a, b) ELSE B32AddMag(a.v, b, a))
  ELSE IF B32MagLe(b, a) THEN B32SubMag(a.v, a, b) ELSE B32SubMag(b.v, b, a)
B32Neg(a) == [a EXCEPT !.v = 0 - a.v]
\* a * b: the 48-bit product of the significands from their 12-bit halves
B32Mul(a, b) ==
  IF a.v = 0 \/ b.v = 0 THEN B32Zero
  ELSE LET ah == a.m \div Two12
           al == a.m % Two12
           bh == b.m \div Two12
           bl == b.m % Two12
           mid == ah * bl + al * bh
           losum == (mid % Two12) * Two12 + al * bl
           hi == ah * bh + mid \div Two12 + losum \div Two24
           lo == losum % Two24
           e == a.e + b.e + MantissaBits
       IN IF hi >= Two23 THEN B32Round(a.v * b.v, hi, e, lo, Two24)
          ELSE B32Round(a.v * b.v, 2 * hi + lo \div Two23, e - 1, lo % Two23, Two23)
RECURSIVE B32LongDiv(_, _, _, _)
\* n more quotient bits of r / d after the bits q: <<quotient, remainder>>
B32LongDiv(q, r, d, n) ==
  IF n = 0 THEN <<q, r>>
  ELSE IF 2 * r >= d THEN B32LongDiv(2 * q + 1, 2 * r - d, d, n - 1)
  ELSE B32LongDiv(2 * q, 2 * r, d, n - 1)
\* a / b for b # 0
B32Div(a, b) ==
  IF a.v = 0 THEN B32Zero
  ELSE IF a.m >= b.m
       THEN LET qr == B32LongDiv(1, a.m - b.m, b.m, MantissaBits - 1)
            IN B32Round(a.v * b.v, qr[1], a.e - b.e - (MantissaBits - 1), qr[2], b.m)
  ELSE LET qr == B32LongDiv(0, a.m, b.m, MantissaBits)
       IN B32Round(a.v * b.v, qr[1], a.e - b.e - MantissaBits, qr[2], b.m)
\* a <= b
B32Le(a, b) ==
  IF a.v # b.v THEN a.v < b.v
  ELSE IF a.v = 0 THEN TRUE
  ELSE IF a.v = 1 THEN B32MagLe(a, b) ELSE B32MagLe(b, a)
\* the binary32 nearest to the decimal literal num / den
B32Literal(num, den) == B32Div(B32OfInt(num), B32OfInt(den))
\* an amplitude of the fixed-point kind as the binary32 it stands for
ToB32(x) == IF x.k = "b32" THEN x ELSE B32Literal(x.v, One)
\* an operation whose operands are finite and one of them is held bit for bit
B32Pair(a, b) ==
  \/ a.k = "b32" /\ b.k \in {"b32", "fin", "nz"}
  \/ b.k = "b32" /\ a.k \in {"fin", "nz"}

\* a + b
FAdd(a, b) ==
  IF IsNaN(a) \/ IsNaN(b) THEN NaN
  ELSE IF IsFinite(a) /\ IsFinite(b) THEN Fin(a.v + b.v)
  ELSE IF IsFinite(a) THEN b
  ELSE IF IsFinite(b) THEN a
  ELSE IF a.k = b.k THEN a ELSE NaN
FNeg(a) ==
  CASE a.k = "nan" -> NaN
    [] a.k = "inf" -> NegInf
    [] a.k = "ninf" -> PosInf
    [] a.k = "nz" -> Fin(0)
    [] OTHER -> IF a.v = 0 THEN NegZero ELSE Fin(-a.v)
\* a - b
FSub(a, b) == FAdd(a, FNeg(b))
\* a * b for a time and a sample rate (plain product)
FMul(a, b) ==
  IF IsNaN(a) \/ IsNaN(b) THEN NaN
  ELSE IF IsFinite(a) /\ IsFinite(b)
       THEN IF a.v * b.v = 0 THEN SignedZero(Sgn(a) * Sgn(b)) ELSE Fin(a.v * b.v)
  ELSE IF IsZero(a) \/ IsZero(b) THEN NaN
  ELSE SignedInf(Sgn(a) * Sgn(b))
\* a * b for two amplitudes (both in quanta of 1/One)
FMulAmp(a, b) ==
  IF IsNaN(a) \/ IsNaN(b) THEN NaN
  ELSE IF IsFinite(a) /\ IsFinite(b)
       THEN IF a.v = 0 \/ b.v = 0 THEN SignedZero(Sgn(a) * Sgn(b))
            ELSE Fin(MulQuot(a.v, b.v, One))
  ELSE IF IsZero(a) \/ IsZero(b) THEN NaN
  ELSE SignedInf(Sgn(a) * Sgn(b))
\* a / b for an amplitude a and a sample count b: x/0 is +-inf, 0/0 is NaN
FDiv(a, b) ==
  IF IsNaN(a) \/ IsNaN(b) THEN NaN
  ELSE IF IsFinite(a) /\ IsFinite(b)
       THEN IF b.v = 0
            THEN IF a.v = 0 THEN NaN ELSE SignedInf(Sgn(a) * Sgn(b))
            ELSE IF a.v = 0 THEN SignedZero(Sgn(a) * Sgn(b))
            ELSE Fin(TruncDiv(a.v * TimeScale, b.v))
  ELSE IF IsFinite(a) THEN SignedZero(Sgn(a) * Sgn(b))
  ELSE IF IsFinite(b) THEN SignedInf(Sgn(a) * Sgn(b))
  ELSE NaN
\* a <= b (false when either side is NaN)
FLe(a, b) ==
  IF IsNaN(a) \/ IsNaN(b) THEN FALSE
  ELSE IF IsFinite(a) /\ IsFinite(b) THEN a.v <= b.v
  ELSE IF a.k = b.k THEN TRUE
  ELSE a.k = "ninf" \/ b.k = "inf"
FGe(a, b) == FLe(b, a)
FLt(a, b) == FLe(a, b) /\ ~FLe(b, a)
FGt(a, b) == FLt(b, a)
\* a == b (false for NaN, true for 0.0 == -0.0)
FEq(a, b) == FLe(a, b) /\ FLe(b, a)
\* f32::min: a NaN operand yields the other operand
FMin(a, b) == IF IsNaN(a) THEN b ELSE IF IsNaN(b) THEN a ELSE IF FLe(a, b) THEN a ELSE b

\* ------------------------------------------------ f32 of either kind
\* The same operations where a value may be held bit for bit: an operand of
\* the fixed-point kind is first taken to the binary32 it stands for.
F32Add(a, b) == IF B32Pair(a, b) THEN B32Add(ToB32(a), ToB32(b)) ELSE FAdd(a, b)
F32Neg(a) == IF a.k = "b32" THEN B32Neg(a) ELSE FNeg(a)
F32Sub(a, b) == F32Add(a, F32Neg(b))
F32Mul(a, b) == IF B32Pair(a, b) THEN B32Mul(ToB32(a), ToB32(b)) ELSE FMul(a, b)
F32MulAmp(a, b) == IF B32Pair(a, b) THEN B32Mul(ToB32(a), ToB32(b)) ELSE FMulAmp(a, b)
F32Div(a, b) ==
  IF B32Pair(a, b) /\ b.v # 0 THEN B32Div(ToB32(a), ToB32(b))
  ELSE IF B32Pair(a, b) THEN (IF a.v = 0 THEN NaN ELSE SignedInf(Sgn(a) * Sgn(b)))
  ELSE FDiv(a, b)
F32Le(a, b) == IF B32Pair(a, b) THEN B32Le(ToB32(a), ToB32(b)) ELSE FLe(a, b)
F32Ge(a, b) == F32Le(b, a)
F32Lt(a, b) == F32Le(a, b) /\ ~F32Le(b, a)
F32Gt(a, b) == F32Lt(b, a)
F32Eq(a, b) == F32Le(a, b) /\ F32Le(b, a)
F32Min(a, b) == IF IsNaN(a) THEN b ELSE IF IsNaN(b) THEN a ELSE IF F32Le(a, b) THEN a ELSE b

\* ---------------------------------------------------------------- Envelope
EnvelopeState == {"Idle", "Attack", "Decay", "Sustain", "Release"}

\* default ADSR of Envelope::new: 0.01 s, 0.1 s, 0.7, 0.3 s
DefaultAttack == 1
DefaultDecay == 10
DefaultSustain == (7 * One) \div 10
DefaultRelease == 30

\* Envelope::new(sample_rate)
Envelope_new(sample_rate) ==
  [ sample_rate |-> sample_rate,
    state |-> "Idle",
    current_level |-> Fin(0),
    attack_time |-> Fin(DefaultAttack),
    decay_time |-> Fin(DefaultDecay),
    sustain_level |-> Fin(DefaultSustain),
    release_time |-> Fin(DefaultRelease),
    velocity |-> Fin(One),
    attack_increment |-> Fin(0),
    decay_increment |-> Fin(0),
    release_increment |-> Fin(0) ]

\* Envelope::recalculate_increments
recalculate_increments(e) ==
  [e EXCEPT
    !.attack_increment = F32Div(Fin(One), F32Mul(e.attack_time, e.sample_rate)),
    !.decay_increment = F32Div(F32Sub(Fin(One), e.sustain_level), F32Mul(e.decay_time, e.sample_rate)),
    !.release_increment = F32Div(e.sustain_level, F32Mul(e.release_time, e.sample_rate))]

\* Envelope::set_adsr
set_adsr(e, attack, decay, sustain, release) ==
  recalculate_increments([e EXCEPT !.attack_time = attack, !.decay_time = decay,
                                   !.sustain_level = sustain, !.release_time = release])

\* Envelope::set_velocity
set_velocity(e, velocity) == recalculate_increments([e EXCEPT !.velocity = velocity])

\* Envelope::note_on
note_on(e) == recalculate_increments([e EXCEPT !.state = "Attack"])

\* note_off without the Idle check
note_off_unguarded(e) == [e EXCEPT !.state = "Release"]

\* note_off that also drops the level to sustain_level
note_off_from_sustain(e) ==
  IF e.state # "Idle"
  THEN [e EXCEPT !.state = "Release", !.current_level = e.sustain_level]
  ELSE e

\* Envelope::note_off
note_off(e) == IF e.state # "Idle" THEN [e EXCEPT !.state = "Release"] ELSE e

\* next_sample whose Release branch adds the decrement instead of subtracting it
next_sample_release_rises(e) ==
  CASE e.state = "Idle" -> e
    [] e.state = "Attack" ->
         LET l == F32Add(e.current_level, e.attack_increment) IN
         IF F32Ge(l, Fin(One))
         THEN [e EXCEPT !.current_level = Fin(One), !.state = "Decay"]
         ELSE [e EXCEPT !.current_level = l]
    [] e.state = "Decay" ->
         LET l == F32Sub(e.current_level, e.decay_increment) IN
         IF F32Le(l, e.sustain_level)
         THEN [e EXCEPT !.current_level = e.sustain_level, !.state = "Sustain"]
         ELSE [e EXCEPT !.current_level = l]
    [] e.state = "Sustain" -> e
    [] e.state = "Release" ->
         LET l == F32Add(e.current_level, e.release_increment) IN
         IF F32Le(l, Fin(0))
         THEN [e EXCEPT !.current_level = Fin(0), !.state = "Idle"]
         ELSE [e EXCEPT !.current_level = l]

\* Envelope::next_sample: the envelope after the call
next_sample(e) ==
  CASE e.state = "Idle" -> e
    [] e.state = "Attack" ->
         LET l == F32Add(e.current_level, e.attack_increment) IN
         IF F32Ge(l, Fin(One))
         THEN [e EXCEPT !.current_level = Fin(One), !.state = "Decay"]
         ELSE [e EXCEPT !.current_level = l]
    [] e.state = "Decay" ->
         LET l == F32Sub(e.current_level, e.decay_increment) IN
         IF F32Le(l, e.sustain_level)
         THEN [e EXCEPT !.current_level = e.sustain_level, !.state = "Sustain"]
         ELSE [e EXCEPT !.current_level = l]
    [] e.state = "Sustain" -> e
    [] e.state = "Release" ->
         LET l == F32Sub(e.current_level, e.release_increment) IN
         IF F32Le(l, Fin(0))
         THEN [e EXCEPT !.current_level = Fin(0), !.state = "Idle"]
         ELSE [e EXCEPT !.current_level = l]

\* next_sample returning the level held before the step
next_sample_value_stale(e) ==
  IF e.state = "Idle" THEN Fin(0)
  ELSE F32MulAmp(e.current_level, e.velocity)

\* Envelope::next_sample: the value the call returns
next_sample_value(e) ==
  IF e.state = "Idle" THEN Fin(0)
  ELSE F32MulAmp(next_sample(e).current_level, e.velocity)

\* Envelope::is_finished
is_finished(e) == e.state = "Idle"

\* ---------------------------------------------------------------- Oscillator
\* gui::WaveType
WaveType == {"Sine", "Square", "Triangle", "Sawtooth"}

\* a / b counted in quanta of 1/scale: x/0 is +-inf, 0/0 is NaN
FQuot(a, b, scale) ==
  IF IsNaN(a) \/ IsNaN(b) THEN NaN
  ELSE IF IsFinite(a) /\ IsFinite(b)
       THEN IF b.v = 0
            THEN IF a.v = 0 THEN NaN ELSE SignedInf(Sgn(a) * Sgn(b))
            ELSE IF a.v = 0 THEN SignedZero(Sgn(a) * Sgn(b))
            ELSE Fin(TruncDiv(a.v * scale, b.v))
  ELSE IF IsFinite(a) THEN SignedZero(Sgn(a) * Sgn(b))
  ELSE IF IsFinite(b) THEN SignedInf(Sgn(a) * Sgn(b))
  ELSE NaN
\* a % m for a finite m > 0: the remainder keeps the sign of a
FRem(a, m) ==
  IF ~IsFinite(a) THEN NaN
  ELSE IF a.v < 0 THEN (IF (-a.v) % m = 0 THEN NegZero ELSE Fin(-((-a.v) % m)))
  ELSE IF a.k = "nz" THEN NegZero ELSE Fin(a.v % m)

\* 2.0 * PI as a phase
TwoPi == Fin(PhaseQ)

\* sin of a phase of h half-quanta, 0 <= h <= PhaseQ (first half cycle), by
\* Bhaskara's rational approximation 16 t (1 - t) / (5 - 4 t (1 - t)), t = h / PhaseQ
SinHalf(h) == (16 * h * (PhaseQ - h) * One) \div (5 * PhaseQ * PhaseQ - 4 * h * (PhaseQ - h))
\* f32::sin of a phase: NaN for an infinite or NaN phase
FSin(phase) ==
  IF ~IsFinite(phase) THEN NaN
  ELSE LET h == (2 * phase.v) % (2 * PhaseQ)
       IN IF phase.v = 0 THEN phase
          ELSE IF h <= PhaseQ THEN Fin(SinHalf(h)) ELSE Fin(-SinHalf(h - PhaseQ))

\* f32::cos of a phase: the sine a quarter of a cycle on
FCos(phase) ==
  IF ~IsFinite(phase) THEN NaN ELSE FSin(Fin(phase.v + PhaseQ \div 4))

\* ----------------------------------------------------------------- filters
\* the default device rate of main.rs, in Hz
DefaultSampleRate == 44100
\* std::f32::consts::PI, the binary32 nearest to pi
PI == B32(1, 13176795, 0 - 22)
\* the alpha of LowPassFilter::new and LowPassFilter::set_cutoff, in binary32
LowPassFilter_alpha(cutoff_freq, sample_rate) ==
  LET rc == F32Div(B32OfInt(1), F32Mul(F32Mul(B32OfInt(2), PI), cutoff_freq))
      dt == F32Div(B32OfInt(1), sample_rate)
  IN F32Div(dt, F32Add(rc, dt))
\* LowPassFilter::new
LowPassFilter_new(cutoff_freq, sample_rate) ==
  [prev_sample |-> B32Zero, alpha |-> LowPassFilter_alpha(cutoff_freq, sample_rate)]
\* LowPassFilter::set_cutoff
LowPassFilter_set_cutoff(filter, cutoff_freq, sample_rate) ==
  [filter EXCEPT !.alpha = LowPassFilter_alpha(cutoff_freq, sample_rate)]
\* LowPassFilter::process: the filter after the call; its return value is the
\* new prev_sample
LowPassFilter_process(filter, input) ==
  [filter EXCEPT !.prev_sample =
     F32Add(filter.prev_sample, F32MulAmp(filter.alpha, F32Sub(input, filter.prev_sample)))]

\* const OVERSAMPLING
OVERSAMPLING == 4
\* the cutoff the oscillator was built with, in Hz
InitialCutoff == 20000
\* the filter fields of audio::Oscillator::new
OscillatorFilter_new(sample_rate) ==
  [filter |-> LowPassFilter_new(B32OfInt(InitialCutoff), F32Mul(sample_rate, B32OfInt(OVERSAMPLING))),
   prev_cutoff |-> B32OfInt(InitialCutoff)]
\* the cutoff get_sample derives from the effective frequency
CutoffOf(frequency, sample_rate) ==
  IF F32Gt(frequency, F32Mul(sample_rate, B32Literal(125, 1000)))
  THEN F32Mul(frequency, B32Literal(15, 10))
  ELSE F32Mul(frequency, B32Literal(25, 10))
\* cutoff.min(sample_rate * 0.45), the cutoff handed to set_cutoff
ClampedCutoff(cutoff, sample_rate) == F32Min(cutoff, F32Mul(sample_rate, B32Literal(45, 100)))
\* f32::abs of a finite binary32
B32Abs(x) == [x EXCEPT !.v = IF x.v = 0 THEN 0 ELSE 1]
\* the cutoff update of audio::Oscillator::get_sample (detune 0.0, so the
\* effective frequency is the base frequency): the filter is retuned only
\* when the cutoff has moved by more than 1 Hz
UpdateCutoff(o, frequency, sample_rate) ==
  LET cutoff == CutoffOf(frequency, sample_rate)
  IN IF F32Gt(B32Abs(F32Sub(cutoff, o.prev_cutoff)), B32OfInt(1))
     THEN [filter |-> LowPassFilter_set_cutoff(o.filter, ClampedCutoff(cutoff, sample_rate),
                                               sample_rate),
           prev_cutoff |-> cutoff]
     ELSE o
\* whether get_sample runs the filter: frequency > sample_rate * 0.25
FilterApplied(frequency, sample_rate) ==
  F32Gt(frequency, F32Mul(sample_rate, B32Literal(25, 100)))

\* NotchFilter::calculate_coefficients, a0 normalised to 1.0; frequency and
\* sample_rate in the same unit, q and the coefficients in quanta of 1/One
calculate_coefficients(f) ==
  LET omega == FQuot(FMul(TwoPi, f.frequency), f.sample_rate, 1)
      alpha == FQuot(FSin(omega), FMulAmp(Fin(2 * One), f.q), One)
      a0 == FAdd(Fin(One), alpha)
      b1 == FMulAmp(Fin(0 - 2 * One), FCos(omega))
  IN [f EXCEPT !.b0 = FQuot(Fin(One), a0, One),
               !.b1 = FQuot(b1, a0, One),
               !.b2 = FQuot(Fin(One), a0, One),
               !.a0 = Fin(One),
               !.a1 = FQuot(b1, a0, One),
               !.a2 = FQuot(FSub(Fin(One), alpha), a0, One)]
\* NotchFilter::new
NotchFilter_new(frequency, q, sample_rate) ==
  calculate_coefficients(
    [frequency |-> frequency, q |-> q, sample_rate |-> sample_rate,
     x1 |-> Fin(0), x2 |-> Fin(0), y1 |-> Fin(0), y2 |-> Fin(0),
     a0 |-> Fin(One), a1 |-> Fin(0), a2 |-> Fin(0),
     b0 |-> Fin(One), b1 |-> Fin(0), b2 |-> Fin(0)])
\* NotchFilter::set_frequency
NotchFilter_set_frequency(f, frequency) ==
  calculate_coefficients([f EXCEPT !.frequency = frequency])
\* NotchFilter::set_q
NotchFilter_set_q(f, q) == calculate_coefficients([f EXCEPT !.q = q])
\* NotchFilter::set_sample_rate
NotchFilter_set_sample_rate(f, sample_rate) ==
  calculate_coefficients([f EXCEPT !.sample_rate = sample_rate])
\* NotchFilter::process: the filter after the call and the output
NotchFilter_process(f, input) ==
  LET output == FSub(FSub(FAdd(FAdd(FMulAmp(f.b0, input), FMulAmp(f.b1, f.x1)),
                               FMulAmp(f.b2, f.x2)),
                          FMulAmp(f.a1, f.y1)),
                     FMulAmp(f.a2, f.y2))
  IN [filter |-> [f EXCEPT !.x2 = f.x1, !.x1 = input, !.y2 = f.y1, !.y1 = output],
      output |-> output]

\* 2^(detune / 12) as a ratio, for a detune of whole octaves
DetuneRatio(detune) ==
  IF detune >= 0 THEN <<2 ^ (detune \div 12), 1>> ELSE <<1, 2 ^ ((-detune) \div 12)>>
\* base_frequency * 2.0f32.powf(detune / 12.0)
DetunedFrequency(base_frequency, detune) ==
  IF IsFinite(base_frequency)
  THEN FQuot(Fin(base_frequency.v * DetuneRatio(detune)[1]), Fin(DetuneRatio(detune)[2]), 1)
  ELSE base_frequency

\* Oscillator::new (the low-pass filter of audio::Oscillator is not part of
\* this model)
Oscillator_new(wave_type, sample_rate) ==
  [wave_type |-> wave_type, phase |-> Fin(0), detune |-> 0, volume |-> Fin(One)]

\* Oscillator::poly_blep; t and dt are fractions of a cycle in quanta of 1/One
poly_blep(t, dt) ==
  IF FLt(t, dt)
  THEN LET u == FQuot(t, dt, One)
       IN FSub(FSub(FMulAmp(Fin(2 * One), u), FMulAmp(u, u)), Fin(One))
  ELSE IF FGt(t, FSub(Fin(One), dt))
  THEN LET u == FQuot(FSub(t, Fin(One)), dt, One)
       IN FAdd(FAdd(FMulAmp(u, u), FMulAmp(Fin(2 * One), u)), Fin(One))
  ELSE Fin(0)

\* Oscillator::get_bandlimited_square
get_bandlimited_square(phase_norm, phase_inc) ==
  LET square == IF FLt(phase_norm, Fin(One \div 2)) THEN Fin(One) ELSE Fin(-One)
  IN FSub(FAdd(square, poly_blep(phase_norm, phase_inc)),
          poly_blep(FRem(FAdd(phase_norm, Fin(One \div 2)), One), phase_inc))

\* Oscillator::get_bandlimited_saw
get_bandlimited_saw(phase_norm, phase_inc) ==
  FSub(FSub(FMulAmp(Fin(2 * One), phase_norm), Fin(One)), poly_blep(phase_norm, phase_inc))

\* Oscillator::get_bandlimited_triangle
get_bandlimited_triangle(phase_norm) ==
  LET phase_quad == FMulAmp(phase_norm, Fin(4 * One))
  IN IF FLt(phase_quad, Fin(One)) THEN phase_quad
     ELSE IF FLt(phase_quad, Fin(2 * One)) THEN FSub(Fin(2 * One), phase_quad)
     ELSE IF FLt(phase_quad, Fin(3 * One)) THEN FSub(phase_quad, Fin(4 * One))
     ELSE FAdd(Fin(-4 * One), phase_quad)

\* the phase update of Oscillator::get_sample: one addition of
\* 2 PI * phase_inc and at most one subtraction of 2 PI
AdvancePhase(phase, step) ==
  LET p == FAdd(phase, step)
  IN IF FGe(p, TwoPi) THEN FSub(p, TwoPi) ELSE p

\* the raw sample of Oscillator::get_sample: the wave at the current phase
RawSample(osc, phase_inc) ==
  LET phase_norm == FQuot(osc.phase, TwoPi, One)
  IN CASE osc.wave_type = "Sine" -> FSin(osc.phase)
       [] osc.wave_type = "Square" -> get_bandlimited_square(phase_norm, phase_inc)
       [] osc.wave_type = "Triangle" -> get_bandlimited_triangle(phase_norm)
       [] osc.wave_type = "Sawtooth" -> get_bandlimited_saw(phase_norm, phase_inc)

\* the smoothing factor without .min(1.0)
SmoothingUnclamped(frequency, sample_rate) ==
  LET quarter == FMul(sample_rate, Fin(PhaseQ))
      excess == FSub(FMul(frequency, Fin(4)), quarter)
  IN FSub(Fin(One), FQuot(excess, quarter, One))
\* 1.0 - ((frequency - sample_rate * 0.25) / (sample_rate * 0.25)).min(1.0),
\* both sides of the quotient taken four times
Smoothing(frequency, sample_rate) ==
  LET quarter == FMul(sample_rate, Fin(PhaseQ))
      excess == FSub(FMul(frequency, Fin(4)), quarter)
  IN FSub(Fin(One), FMin(FQuot(excess, quarter, One), Fin(One)))

\* Oscillator::get_sample: the oscillator after the call and the sample
Oscillator_get_sample(osc, base_frequency, sample_rate) ==
  LET frequency == DetunedFrequency(base_frequency, osc.detune)
      phase_inc == FQuot(frequency, FMul(sample_rate, Fin(PhaseQ)), One)
      raw == RawSample(osc, phase_inc)
  IN [ osc |-> [osc EXCEPT !.phase = AdvancePhase(osc.phase, FQuot(frequency, sample_rate, 1))],
       sample |-> IF FGt(FMul(frequency, Fin(4)), FMul(sample_rate, Fin(PhaseQ)))
                  THEN FMulAmp(FMulAmp(raw, Smoothing(frequency, sample_rate)), osc.volume)
                  ELSE FMulAmp(raw, osc.volume) ]

\* ------------------------------------------------------- WavetableOscillator
\* A table phase is a table index in quanta of 1/One; a wavetable frequency
\* is in cycles per 100 ms in quanta of 1/One.
WAVETABLE_SIZE == 2 ^ TableBits
WAVETABLE_MASK == WAVETABLE_SIZE - 1
\* x & WAVETABLE_MASK for x >= 0: the mask is a power of two less one
MaskIndex(x) == x % (WAVETABLE_MASK + 1)

\* sin(2 PI i / WAVETABLE_SIZE), by Bhaskara's approximation on each half cycle
SineEntry(i) ==
  LET n == WAVETABLE_SIZE
      j == IF 2 * i <= n THEN i ELSE i - n \div 2
      q == 2 * j * (n - 2 * j)
      y == (16 * q * One) \div (5 * n * n - 4 * q)
  IN IF 2 * i <= n THEN Fin(y) ELSE Fin(0 - y)
\* the closure of get_sine_table: the table it builds, entry i at position i + 1
BuildSineTable == [i \in 1..WAVETABLE_SIZE |-> SineEntry(i - 1)]

\* frequency * WAVETABLE_SIZE as f32 / sample_rate
PhaseIncrement(frequency, sample_rate) ==
  FQuot(FMul(frequency, Fin(WAVETABLE_SIZE)), sample_rate, 1)

\* WavetableOscillator::new, given the table get_sine_table() returned
WavetableOscillator_new(sample_rate, frequency, wavetable) ==
  [wavetable |-> wavetable, phase |-> Fin(0),
   phase_increment |-> PhaseIncrement(frequency, sample_rate)]

\* WavetableOscillator::set_frequency, as one that also restarts the phase
set_frequency_restart(o, frequency, sample_rate) ==
  [o EXCEPT !.phase = Fin(0), !.phase_increment = PhaseIncrement(frequency, sample_rate)]
\* WavetableOscillator::set_frequency
WavetableOscillator_set_frequency(o, frequency, sample_rate) ==
  [o EXCEPT !.phase_increment = PhaseIncrement(frequency, sample_rate)]

\* `self.phase as usize`: the cast truncates, and gives 0 for a negative or NaN
\* phase (the phase is finite for the finite, positive rates in use)
PhaseFloor(phase) == IF IsFinite(phase) /\ phase.v > 0 THEN phase.v \div One ELSE 0

\* WavetableOscillator::get_sample on the table the oscillator references: the
\* oscillator after the call and the sample
WavetableOscillator_get_sample(o, table) ==
  LET phase_floor == PhaseFloor(o.phase)
      phase_frac == FSub(o.phase, Fin(phase_floor * One))
      idx1 == MaskIndex(phase_floor)
      idx2 == MaskIndex(phase_floor + 1)
      y1 == table[idx1 + 1]
      y2 == table[idx2 + 1]
      p == FAdd(o.phase, o.phase_increment)
  IN [ osc |-> [o EXCEPT !.phase = IF FGe(p, Fin(WAVETABLE_SIZE * One))
                                   THEN FSub(p, Fin(WAVETABLE_SIZE * One)) ELSE p],
       sample |-> FAdd(y1, FMulAmp(phase_frac, FSub(y2, y1))) ]

\* ---------------------------------------------------------------- Note
\* midi_note_to_freq: 440 * 2^((note - 69) / 12), tabulated for the note
\* identities in use.  The model's sample rates (10 Hz and up) stand for audio
\* rates, and the table is compressed alike: note 60 is 2 phase quanta per
\* 100 ms (a quarter of the lowest sample rate when PhaseQ is 8), and the
\* other notes keep their ratio to it, rounded to the quantum.
midi_note_to_freq(note) ==
  CASE note = 60 -> 2
    [] note = 61 -> 2
    [] note = 62 -> 2
    [] note = 63 -> 2
    [] note = 72 -> 4
    [] OTHER -> 3

\* Note::new
Note_new(frequency, envelope, sample_rate, wave_type1, wave_type2) ==
  [ frequency |-> frequency, sample_rate |-> sample_rate, envelope |-> envelope,
    osc1 |-> Oscillator_new(wave_type1, sample_rate),
    osc2 |-> Oscillator_new(wave_type2, sample_rate) ]

\* Note::get_sample: the voice after the call and (osc1 + osc2) * 0.5
Note_get_sample(note) ==
  LET r1 == Oscillator_get_sample(note.osc1, Fin(note.frequency), note.sample_rate)
      r2 == Oscillator_get_sample(note.osc2, Fin(note.frequency), note.sample_rate)
  IN [ note |-> [note EXCEPT !.osc1 = r1.osc, !.osc2 = r2.osc],
       sample |-> FMulAmp(FAdd(r1.sample, r2.sample), Fin(One \div 2)) ]

\* Note::update_frequency
update_frequency(note, new_frequency) == [note EXCEPT !.frequency = new_frequency]

\* HashMap::insert replaced by entry(key).or_insert(note): a voice already
\* in the pool is kept
InsertIfAbsent(notes, key, note) ==
  [n \in (DOMAIN notes) \cup {key} |-> IF n \in DOMAIN notes THEN notes[n] ELSE note]

\* HashMap::insert
Insert(notes, key, note) ==
  [n \in (DOMAIN notes) \cup {key} |-> IF n = key THEN note ELSE notes[n]]

\* notes.retain(|_, note| !note.envelope.is_finished())
RetainActive(notes) ==
  [n \in {x \in DOMAIN notes : ~is_finished(notes[x].envelope)} |-> notes[n]]

\* ---------------------------------------------------------------- MIDI
\* status bytes: Note Off and Note On on channel 0, Note On on channel 1,
\* Control Change
StatusBytes == {128, 144, 145, 176}
NoteIds == 60..(60 + NumNotes - 1)
VelocityBytes == {0, 127}
MidiMessages == StatusBytes \X NoteIds \X VelocityBytes

\* msg[0] & 0xF0
StatusNibble(byte) == (byte \div 16) * 16
\* msg[2] as f32 / 127.0
VelocityOf(byte) == Fin((byte * One) \div 127)

\* ADSR the stand-alone handlers pass to set_adsr: 0.01 s, 0.1 s, 0.7, 0.3 s
HandlerAttack == 1
HandlerDecay == 10
HandlerSustain == (7 * One) \div 10
HandlerRelease == 30

\* note_off() on the voice of `key`, the voice being made first (with the
\* default envelope) when the pool has none
ReleaseVoiceOrDefault(notes, key) ==
  IF key \in DOMAIN notes
  THEN [notes EXCEPT ![key].envelope = note_off(notes[key].envelope)]
  ELSE Insert(notes, key, Note_new(0, Envelope_new(Fin(0)), Fin(0), "Sine", "Sine"))

\* note_data.envelope.note_off() on the voice of `key`, if there is one
ReleaseVoice(notes, key) ==
  IF key \in DOMAIN notes
  THEN [notes EXCEPT ![key].envelope = note_off(notes[key].envelope)]
  ELSE notes

\* the MIDI callback of run_console_version (and of SynthApp::connect_midi)
console_midi_callback(notes, msg, current_sample_rate, current_wave_type) ==
  IF msg[1] = 144
  THEN IF FGt(VelocityOf(msg[3]), Fin(0))
       THEN LET e1 == set_adsr(Envelope_new(current_sample_rate), Fin(HandlerAttack),
                               Fin(HandlerDecay), Fin(HandlerSustain), Fin(HandlerRelease))
                e2 == set_velocity(e1, VelocityOf(msg[3]))
                e3 == note_on(e2)
            IN Insert(notes, msg[2],
                      Note_new(midi_note_to_freq(msg[2]), e3, current_sample_rate,
                               current_wave_type, current_wave_type))
       ELSE ReleaseVoice(notes, msg[2])
  ELSE IF msg[1] = 128 THEN ReleaseVoice(notes, msg[2])
  ELSE notes

\* midi::handle_midi_message
handle_midi_message(notes, msg, current_sample_rate, current_wave_type) ==
  IF StatusNibble(msg[1]) = 144
  THEN IF FGt(VelocityOf(msg[3]), Fin(0))
       THEN LET e1 == set_adsr(Envelope_new(current_sample_rate), Fin(HandlerAttack),
                               Fin(HandlerDecay), Fin(HandlerSustain), Fin(HandlerRelease))
                e2 == set_velocity(e1, VelocityOf(msg[3]))
            IN Insert(notes, msg[2],
                      Note_new(midi_note_to_freq(msg[2]), e2, current_sample_rate,
                               current_wave_type, current_wave_type))
       ELSE ReleaseVoice(notes, msg[2])
  ELSE IF StatusNibble(msg[1]) = 128 THEN ReleaseVoice(notes, msg[2])
  ELSE notes

\* RustSynth::handle_midi_event
handle_midi_event(notes, msg, self_sample_rate, ctl, current_wave_type) ==
  IF StatusNibble(msg[1]) = 144
  THEN IF FGt(VelocityOf(msg[3]), Fin(0))
       THEN LET e1 == set_adsr(Envelope_new(self_sample_rate), ctl.attack, ctl.decay,
                               ctl.sustain, ctl.release)
                e2 == set_velocity(e1, VelocityOf(msg[3]))
            IN Insert(notes, msg[2],
                      Note_new(midi_note_to_freq(msg[2]), e2, self_sample_rate,
                               current_wave_type, current_wave_type))
       ELSE ReleaseVoice(notes, msg[2])
  ELSE IF StatusNibble(msg[1]) = 128 THEN ReleaseVoice(notes, msg[2])
  ELSE notes

\* the sample-rate update pass at the head of the audio callback
PropagateSampleRate(notes, current_sample_rate) ==
  [n \in DOMAIN notes |->
     IF ~FEq(notes[n].sample_rate, current_sample_rate)
     THEN update_frequency([notes[n] EXCEPT !.sample_rate = current_sample_rate],
                           notes[n].frequency)
     ELSE notes[n]]

\* a frame loop that passes over the voices whose envelope has finished
VoicesSounding(notes) == {n \in DOMAIN notes : ~is_finished(notes[n].envelope)}
\* the voices one frame visits: for note in notes_guard.values_mut()
VoicesVisited(notes) == DOMAIN notes

\* one frame of the mix loop: every voice's envelope and both of its
\* oscillators yield one sample
AdvanceFrame(notes) ==
  [n \in DOMAIN notes |->
     IF n \in VoicesVisited(notes)
     THEN [Note_get_sample(notes[n]).note EXCEPT !.envelope = next_sample(notes[n].envelope)]
     ELSE notes[n]]

\* a voice before the frame loop has called anything on it
NoCalls == [next_sample |-> 0, osc1 |-> 0, osc2 |-> 0]

\* the calls made so far plus those of one frame: per voice visited, one
\* next_sample on its envelope and, through Note::get_sample, one get_sample
\* on each oscillator
CountFrame(calls, notes) ==
  [n \in DOMAIN notes |->
     LET c == IF n \in DOMAIN calls THEN calls[n] ELSE NoCalls
     IN IF n \in VoicesVisited(notes)
        THEN [next_sample |-> c.next_sample + 1, osc1 |-> c.osc1 + 1, osc2 |-> c.osc2 + 1]
        ELSE c]

\* sine_value * envelope_amp * 0.15 of one voice in one frame
VoiceSample(note) ==
  FMulAmp(FMulAmp(Note_get_sample(note).sample, next_sample_value(note.envelope)),
          Fin((15 * One) \div 100))

\* the sum of the voices' samples over the set S of note identities
RECURSIVE SumVoices(_, _)
SumVoices(notes, S) ==
  IF S = {} THEN Fin(0)
  ELSE LET n == CHOOSE x \in S : TRUE
       IN FAdd(SumVoices(notes, S \ {n}), VoiceSample(notes[n]))

\* a mix that starts from one quantum of DC offset
FrameMixOffset(notes) == FAdd(Fin(1), SumVoices(notes, DOMAIN notes))

\* mix of one frame: 0.0 plus every voice's sample
FrameMix(notes) == SumVoices(notes, DOMAIN notes)

\* the least |x| whose tanh has no binary32 below 1.0 to round to: 1 - tanh(x)
\* is under half a last place (2^-25) from about 9.011 on
TanhSaturation == (9011 * One) \div 1000
\* soft_clip without the saturation of the rounding: the rational
\* approximation at every |x|
soft_clip_unsaturated(x) ==
  IF IsNaN(x) THEN NaN
  ELSE IF ~IsFinite(x) THEN Fin(Sgn(x) * One)
  ELSE IF x.v = 0 THEN x
  ELSE LET q == (x.v * x.v) \div One
       IN Fin(TruncDiv(x.v * (27 * One + q), 27 * One + 9 * q))
\* audio::soft_clip, x.tanh(): NaN for NaN, +-1.0 for +-inf and for every |x|
\* from TanhSaturation on; below it the rational approximation
\* x (27 + x^2) / (27 + 9 x^2), which meets 1 at |x| = 3, and from there the
\* last value under 1.0
soft_clip(x) ==
  IF IsNaN(x) THEN NaN
  ELSE IF ~IsFinite(x) THEN Fin(Sgn(x) * One)
  ELSE IF x.v = 0 THEN x
  ELSE IF Abs(x.v) >= TanhSaturation THEN Fin(Sgn(x) * One)
  ELSE IF Abs(x.v) >= 3 * One THEN Fin(Sgn(x) * (One - 1))
  ELSE LET q == (x.v * x.v) \div One
       IN Fin(TruncDiv(x.v * (27 * One + q), 27 * One + 9 * q))

\* ---------------------------------------------------------------- state
VARIABLES
  env,          \* a stand-alone Envelope driven through its public methods
  op,           \* the Envelope method called last
  ret,          \* the value returned by the last call when it was next_sample, else 0
  adsr,         \* an Envelope held in exact binary32, with the history of its calls
  app,          \* which front end owns the pool: "standalone", "midi_module", "plugin"
  active_notes, \* the voice pool: note identity -> Note
  advanced,     \* per voice, the calls the frame loop of the running callback has made
  sample_rate,  \* the shared sample rate (RustSynth.sample_rate in the plugin)
  controller,   \* the plugin's RustSynthController ADSR values
  callback,     \* position of the audio callback: "idle", "events", "frames"
  frame,        \* index of the next frame of the buffer being mixed
  event,        \* history: the last event handled on the pool
  started,      \* history: notes started since the last prune and not released
  wave_type,    \* the shared wave type
  pool_lock,    \* holder of the pool's Mutex: "none" or "audio"
  data,         \* the output buffer of the audio callback under way: temp_buffer[i] per slot
  mutex,        \* gui.rs: per Mutex, the thread holding it or "none"
  thread,       \* gui.rs: per thread, the lock operations left in what it is running
  lock_order,   \* the pairs <<held, acquired>> of every lock taken while another was held
  osc,          \* a stand-alone band-limited Oscillator
  osc_ret,      \* the sample its last get_sample returned
  osc_calls,    \* how many get_sample calls it has served
  probe,        \* a pure function applied on its own: its name, argument and results
  lp,           \* the low-pass filter inside an audio::Oscillator, with its last call
  notch,        \* a NotchFilter driven through its setters
  SINE_TABLE,   \* the process-wide OnceLock that publishes the shared sine table
  tables,       \* heap: every sine table allocated so far, by allocation order
  pc,           \* per thread: its position in WavetableOscillator::new
  wt,           \* per thread: the WavetableOscillator it built last, if any
  wosc,         \* a stand-alone WavetableOscillator driven through its methods
  wosc_ret      \* its last call: the method, the sample returned and the phase read

envVars == <<env, op, ret, adsr>>
poolVars == <<app, active_notes, advanced, sample_rate, controller, callback, frame, event, started,
              wave_type, pool_lock, data, mutex, thread, lock_order>>
oscVars == <<osc, osc_ret, osc_calls, probe, lp, notch>>
tableVars == <<SINE_TABLE, tables, pc, wt, wosc, wosc_ret>>
vars == <<env, op, ret, adsr, app, active_notes, advanced, sample_rate, controller, callback, frame,
          event, started, wave_type, pool_lock, data, mutex, thread, lock_order, osc, osc_ret,
          osc_calls, probe, lp, notch, SINE_TABLE, tables, pc, wt, wosc, wosc_ret>>

NoEvent == [kind |-> "none", note |-> 0, expect |-> {}, old |-> "none"]

\* the exact Envelope before any call: the envelope, the next_sample calls
\* since the last note_on or note_off, that last call ("new", "note_on",
\* "note_off"), the state the last note_off found, and the last value returned
AdsrIdle == [env |-> Envelope_new(Fin(1)), calls |-> 0, last |-> "new", from |-> "none",
             ret |-> Fin(0)]

\* the pool as it is before any front end has touched it
\* gui.rs: the five Mutexes and the three threads that lock them
Mutexes == {"config", "active_notes", "sample_rate", "volume", "wave_type"}
LockThreads == {"audio", "midi", "gui"}
lockVars == <<mutex, thread, lock_order>>
\* nothing locked, every thread between two callbacks or blocks
LocksIdle ==
  /\ mutex = [m \in Mutexes |-> "none"]
  /\ thread = [t \in LockThreads |-> <<>>]
  /\ lock_order = {}

PoolIdle ==
  /\ app = "standalone"
  /\ active_notes = [n \in {} |-> 0]
  /\ advanced = [n \in {} |-> 0]
  /\ sample_rate = Fin(1)
  /\ controller = [attack |-> Fin(0), decay |-> Fin(0), sustain |-> Fin(0), release |-> Fin(0)]
  /\ callback = "idle"
  /\ frame = 0
  /\ event = NoEvent
  /\ started = {}
  /\ wave_type = "Sine"
  /\ pool_lock = "none"
  /\ data = <<>>
  /\ LocksIdle

\* the stand-alone oscillator before any call
NoSample == [sample |-> Fin(0), base_frequency |-> Fin(0), sample_rate |-> Fin(0)]
\* no pure function applied yet
\* (y is f(x), yy is f(f(x)) once n is 2)
NoProbe == [f |-> "none", x |-> Fin(0), y |-> Fin(0), yy |-> Fin(0), n |-> 0]
\* the oscillator's filter before any call: Oscillator::new at 44100 Hz,
\* with the frequency and rate of the last get_sample and whether that call
\* ran the filter
LpIdle ==
  [o |-> OscillatorFilter_new(B32OfInt(DefaultSampleRate)), frequency |-> B32Zero,
   sample_rate |-> B32OfInt(DefaultSampleRate), applied |-> FALSE, calls |-> 0]
\* NotchFilter::new(1.0, 1.0, 8.0) with the setter called last
NotchIdle == [f |-> NotchFilter_new(Fin(1), Fin(One), Fin(PhaseQ)), last |-> "new", calls |-> 0]

OscIdle ==
  /\ osc = Oscillator_new("Sine", Fin(1))
  /\ osc_ret = NoSample
  /\ osc_calls = 0
  /\ probe = NoProbe
  /\ lp = LpIdle
  /\ notch = NotchIdle

\* threads that may build WavetableOscillators
Threads == 1..NumThreads
\* a thread that owns no oscillator yet
NoOscillator == [wavetable |-> 0, phase |-> Fin(0), phase_increment |-> Fin(0)]
\* the last call on the stand-alone WavetableOscillator: the operation, the one
\* before it, the sample returned, the phase the oscillator had on entry, and
\* the number of calls so far
NoCall == [op |-> "none", prev |-> "none", sample |-> Fin(0), at |-> Fin(0), calls |-> 0]

\* the wavetable machinery before any thread has asked for the table
TableIdle ==
  /\ SINE_TABLE = [state |-> "incomplete", value |-> 0]
  /\ tables = <<>>
  /\ pc = [t \in Threads |-> "idle"]
  /\ wt = [t \in Threads |-> NoOscillator]
  /\ wosc = NoOscillator
  /\ wosc_ret = NoCall

\* ------------------------------------------------- Envelope, driven directly
\* arguments tried on the Envelope's setters
ValidTimes == {TimeScale * i : i \in 1..MaxTime}
ValidSustains == {0, One \div 2, One}
InvalidTimes == {0 - TimeScale, 0}
InvalidSustains == {0 - (One \div 2), One + (One \div 2)}
ValidAdsr == ValidTimes \X ValidTimes \X ValidSustains \X ValidTimes
\* every valid tuple, one invalid argument at a time, and the all-zero tuple
AnyAdsr ==
  ValidAdsr
  \cup {<<t, TimeScale, One \div 2, TimeScale>> : t \in InvalidTimes}
  \cup {<<TimeScale, t, One \div 2, TimeScale>> : t \in InvalidTimes}
  \cup {<<TimeScale, TimeScale, x, TimeScale>> : x \in InvalidSustains}
  \cup {<<TimeScale, TimeScale, One \div 2, t>> : t \in InvalidTimes}
  \cup {<<0, 0, 0, 0>>}
Velocities == {One \div 2, One}
Rates == 1..MaxRate

InitEnvValid ==
  /\ \E sr \in Rates : env = Envelope_new(Fin(sr))
  /\ op = "new"
  /\ ret = Fin(0)
  /\ adsr = AdsrIdle
  /\ PoolIdle
  /\ OscIdle
  /\ TableIdle

\* sample_rate 0.0 is the rate of a plugin that was never configured
InitEnv ==
  /\ \E sr \in Rates \cup {0} : env = Envelope_new(Fin(sr))
  /\ op = "new"
  /\ ret = Fin(0)
  /\ adsr = AdsrIdle
  /\ PoolIdle
  /\ OscIdle
  /\ TableIdle

SetAdsr(attack, decay, sustain, release) ==
  /\ env' = set_adsr(env, Fin(attack), Fin(decay), Fin(sustain), Fin(release))
  /\ op' = "set_adsr"
  /\ ret' = Fin(0)
  /\ UNCHANGED <<adsr, poolVars, oscVars, tableVars>>

SetVelocity(velocity) ==
  /\ env' = set_velocity(env, Fin(velocity))
  /\ op' = "set_velocity"
  /\ ret' = Fin(0)
  /\ UNCHANGED <<adsr, poolVars, oscVars, tableVars>>

NoteOn ==
  /\ env' = note_on(env)
  /\ op' = "note_on"
  /\ ret' = Fin(0)
  /\ UNCHANGED <<adsr, poolVars, oscVars, tableVars>>

NoteOff ==
  /\ env' = note_off(env)
  /\ op' = "note_off"
  /\ ret' = Fin(0)
  /\ UNCHANGED <<adsr, poolVars, oscVars, tableVars>>

NextSample ==
  /\ IsFinite(env.current_level) => Abs(env.current_level.v) <= LevelCap * One
  /\ env' = next_sample(env)
  /\ ret' = next_sample_value(env)
  /\ op' = "next_sample"
  /\ UNCHANGED <<adsr, poolVars, oscVars, tableVars>>

SetAdsrAny == \E x \in AnyAdsr : SetAdsr(x[1], x[2], x[3], x[4])
\* valid arguments, given as every caller in the repository gives them: on an
\* envelope that has not been started (main.rs:131-134, midi/mod.rs:37-39,
\* lib.rs:121-128)
SetAdsrValid ==
  /\ env.state = "Idle"
  /\ \E x \in ValidAdsr : SetAdsr(x[1], x[2], x[3], x[4])
SetVelocityAny == \E v \in Velocities : SetVelocity(v)

NextEnv ==
  \/ SetAdsrAny
  \/ SetVelocityAny
  \/ NoteOn
  \/ NoteOff
  \/ NextSample

NextEnvValid ==
  \/ SetAdsrValid
  \/ SetVelocityAny
  \/ NoteOn
  \/ NoteOff
  \/ NextSample

\* after note_off has put the envelope in Release only next_sample is called
NextEnvRelease ==
  \/ env.state # "Release" /\ SetAdsrValid
  \/ env.state # "Release" /\ SetVelocityAny
  \/ env.state # "Release" /\ NoteOn
  \/ env.state # "Release" /\ NoteOff
  \/ NextSample

\* any arguments, given as every caller in the repository gives them: on an
\* envelope that has not been started
SetAdsrUnstarted ==
  /\ env.state = "Idle"
  /\ SetAdsrAny

NextEnvUnstarted ==
  \/ SetAdsrUnstarted
  \/ SetVelocityAny
  \/ NoteOn
  \/ NoteOff
  \/ NextSample

\* the Envelope under arbitrary arguments
SpecEnv == InitEnv /\ [][NextEnv]_vars
\* the Envelope under arbitrary arguments, set_adsr called between notes
SpecEnvUnstarted == InitEnv /\ [][NextEnvUnstarted]_vars
\* the Envelope under valid ADSR arguments and a positive sample rate
SpecEnvValid == InitEnvValid /\ [][NextEnvValid]_vars
\* the audio callback keeps calling next_sample on a released envelope
SpecEnvRelease == InitEnvValid /\ [][NextEnvRelease]_vars /\ WF_vars(NextSample)

\* C2: under valid ADSR parameters, once note_off has put the envelope in
\* Release, repeated next_sample calls eventually bring it to Idle.
C2_ReleaseReachesIdle == (env.state = "Release") ~> (env.state = "Idle")

C4_LevelInUnitRange ==
  /\ FLe(Fin(0), env.current_level)
  /\ FLe(env.current_level, Fin(One))

\* the edges of the state machine as section 4.1 lists them
ListedEdge(e, f, call) ==
  \/ e.state = "Idle" /\ f.state = "Attack" /\ call = "note_on"
  \/ /\ e.state = "Attack" /\ f.state = "Decay" /\ call = "next_sample"
     /\ FGe(FAdd(e.current_level, e.attack_increment), Fin(One))
  \/ /\ e.state = "Decay" /\ f.state = "Sustain" /\ call = "next_sample"
     /\ FLe(FSub(e.current_level, e.decay_increment), e.sustain_level)
  \/ e.state \in {"Attack", "Decay", "Sustain"} /\ f.state = "Release" /\ call = "note_off"
  \/ /\ e.state = "Release" /\ f.state = "Idle" /\ call = "next_sample"
     /\ FLe(FSub(e.current_level, e.release_increment), Fin(0))

\* the retrigger edges: note_on on an envelope that is already past Attack
RetriggerEdge(e, f, call) ==
  e.state \in {"Decay", "Sustain", "Release"} /\ f.state = "Attack" /\ call = "note_on"

\* C5 as stated: every change of state is one of the listed edges.
C5_OnlyListedEdges ==
  [][env'.state # env.state => ListedEdge(env, env', op')]_vars

\* C5 as amended: every change of state is one of the listed edges or a
\* retrigger edge Decay/Sustain/Release -(note_on)-> Attack.
C5_ListedOrRetriggerEdges ==
  [][env'.state # env.state =>
       ListedEdge(env, env', op') \/ RetriggerEdge(env, env', op')]_vars

\* note_on has just retriggered an envelope whose level had reached 1.0:
\* the Attack branch of next_sample never leaves the level at 1.0 in Attack
C5_Witness ==
  /\ op = "note_on"
  /\ env.state = "Attack"
  /\ env.current_level = Fin(One)

\* C6: after note_on, called in whatever state, the envelope is in Attack
\* and its level has been reset to 0.
C6_NoteOnRestartsFromZero ==
  op = "note_on" => (env.state = "Attack" /\ env.current_level = Fin(0))

\* C7: note_off moves Attack, Decay and Sustain to Release and changes no
\* other field; on an Idle envelope it changes nothing at all.
C7_NoteOffFrame ==
  [][op' = "note_off" =>
       /\ env.state \in {"Attack", "Decay", "Sustain"} =>
            env' = [env EXCEPT !.state = "Release"]
       /\ env.state = "Idle" => env' = env]_vars

\* note_off has just interrupted a ramp part-way
C7_Witness ==
  /\ op = "note_off"
  /\ env.state = "Release"
  /\ FGt(env.current_level, Fin(0))
  /\ FLt(env.current_level, Fin(One))

Min(a, b) == IF a <= b THEN a ELSE b
Max(a, b) == IF a >= b THEN a ELSE b

\* C8: one next_sample call applies one step of the current phase, makes at
\* most one transition, returns the level after the step times velocity, and
\* in Idle returns 0 and changes nothing.
C8_OneStepPerCall ==
  [][op' = "next_sample" =>
       /\ env.state = "Idle" => (env' = env /\ ret' = Fin(0))
       /\ env.state = "Attack" =>
            /\ env'.current_level.v =
                 Min(env.current_level.v + env.attack_increment.v, One)
            /\ env'.state \in {"Attack", "Decay"}
       /\ env.state = "Decay" =>
            /\ env'.current_level.v =
                 Max(env.current_level.v - env.decay_increment.v, env.sustain_level.v)
            /\ env'.state \in {"Decay", "Sustain"}
       /\ env.state = "Sustain" => env' = env
       /\ env.state = "Release" =>
            /\ env'.current_level.v =
                 Max(env.current_level.v - env.release_increment.v, 0)
            /\ env'.state \in {"Release", "Idle"}
       /\ env.state # "Idle" =>
            ret'.v = (env'.current_level.v * env.velocity.v) \div One
       /\ env' = [env EXCEPT !.state = env'.state,
                             !.current_level = env'.current_level]]_vars

\* a sample in the middle of the attack ramp, returned at half velocity
C8_Witness ==
  /\ op = "next_sample"
  /\ env.state = "Attack"
  /\ env.velocity = Fin(One \div 2)
  /\ FGt(env.current_level, Fin(0))
  /\ ret = Fin((env.current_level.v * (One \div 2)) \div One)
  /\ FLt(ret, env.current_level)

\* C9: after set_adsr, whatever its arguments, the three per-sample
\* increments are finite and sustain_level lies in [0,1].
C9_SetAdsrGuarded ==
  op = "set_adsr" =>
    /\ IsFinite(env.attack_increment)
    /\ IsFinite(env.decay_increment)
    /\ IsFinite(env.release_increment)
    /\ FLe(Fin(0), env.sustain_level)
    /\ FLe(env.sustain_level, Fin(One))

\* ------------------------------------------------- the voice pool
\* history: how a handler that decoded `status` classified the event, the
\* status it decoded, and the envelope state of the voice the pool held for
\* the note before it ("none" when it held no voice)
Handled(status, msg) ==
  LET old == IF msg[2] \in DOMAIN active_notes
             THEN active_notes[msg[2]].envelope.state ELSE "none"
  IN IF status = 144 /\ FGt(VelocityOf(msg[3]), Fin(0))
     THEN [kind |-> "note_on", note |-> msg[2], expect |-> {}, old |-> old, status |-> status]
     ELSE IF status \in {128, 144}
     THEN [kind |-> "note_off", note |-> msg[2], expect |-> {}, old |-> old, status |-> status]
     ELSE [kind |-> "ignored", note |-> msg[2], expect |-> {}, old |-> "none",
           status |-> status]

StartedAfter(e) ==
  CASE e.kind = "note_on" -> started \cup {e.note}
    [] e.kind = "note_off" -> started \ {e.note}
    [] OTHER -> started

\* a slot of the output buffer the callback has not written: it holds
\* whatever the device left there
Stale == [k |-> "stale", v |-> 0]
\* the buffer a callback is handed: `len` sample slots
FreshBuffer(len) == [i \in 1..len |-> Stale]

\* i32::MAX
I32Max == 2147483647
\* (temp_buffer[i] * i32::MAX as f32) as i32: the cast saturates, NaN is 0
ToI32(x) ==
  IF IsNaN(x) THEN [k |-> "i32", v |-> 0]
  ELSE IF x.k = "inf" \/ (IsFinite(x) /\ x.v >= One) THEN [k |-> "i32", v |-> I32Max]
  ELSE IF x.k = "ninf" \/ (IsFinite(x) /\ x.v <= -One) THEN [k |-> "i32", v |-> (-I32Max) - 1]
  ELSE [k |-> "i32", v |-> (I32Max \div One) * x.v + TruncDiv((I32Max % One) * x.v, One)]

\* the sample a callback of format `fmt` writes for temp_buffer[i] = temp
OutputSample(fmt, temp) == IF fmt = "i32" THEN ToI32(temp) ELSE temp

\* the slots of frame `f` when only whole blocks are mixed (chunks_exact_mut)
FrameSlotsWholeBlocks(len, channels, f) ==
  LET k == f \div BUFFER_SIZE
      first == f * channels
  IN IF (k + 1) * channels * BUFFER_SIZE <= len THEN first..(first + channels - 1) ELSE {}

\* the slots (offsets from 0) of the frame `f` of a buffer of `len` samples:
\* data.chunks_mut(channels * BUFFER_SIZE), then chunk.chunks_mut(channels),
\* frame i of chunk k being written when i < BUFFER_SIZE
FrameSlots(len, channels, f) ==
  LET k == f \div BUFFER_SIZE
      i == f % BUFFER_SIZE
      chunk_start == k * channels * BUFFER_SIZE
      chunk_end == IF chunk_start + channels * BUFFER_SIZE < len
                   THEN chunk_start + channels * BUFFER_SIZE ELSE len
      first == chunk_start + i * channels
      last == IF first + channels < chunk_end THEN first + channels ELSE chunk_end
  IN IF i < BUFFER_SIZE THEN first..(last - 1) ELSE {}

\* frames the nested chunk loops of the callback visit in a buffer of `len` samples
FrameCount(len, channels) == (len + channels - 1) \div channels

\* lib.rs: channel[frame_idx] for every channel of the output bus
BusSlots(channels, f) == {f * channels + c : c \in 0..(channels - 1)}

\* for channel in frame.iter_mut() { *channel = sample }
WriteSlots(buffer, slots, sample) ==
  [i \in DOMAIN buffer |-> IF (i - 1) \in slots THEN sample ELSE buffer[i]]

InitPool ==
  /\ env = Envelope_new(Fin(1))
  /\ op = "new"
  /\ ret = Fin(0)
  /\ adsr = AdsrIdle
  /\ OscIdle
  /\ TableIdle
  /\ app \in {"standalone", "midi_module", "plugin"}
  /\ active_notes = [n \in {} |-> 0]
  /\ advanced = [n \in {} |-> 0]
  /\ IF app = "plugin" THEN sample_rate = Fin(0) ELSE \E r \in Rates : sample_rate = Fin(r)
  /\ controller = [attack |-> Fin(0), decay |-> Fin(0), sustain |-> Fin(0), release |-> Fin(0)]
  /\ callback = "idle"
  /\ frame = 0
  /\ event = NoEvent
  /\ started = {}
  /\ wave_type = "Sine"
  /\ pool_lock = "none"
  /\ data = <<>>
  /\ LocksIdle

\* a handler that touches the pool without waiting for its lock
PoolLockIgnored == TRUE

\* Mutex::lock on the pool returns only when no other thread holds it
PoolLockFree == pool_lock = "none"

\* main.rs: the MIDI callback; it holds the pool lock for the whole event
MidiCallback(msg) ==
  /\ app = "standalone"
  /\ PoolLockFree
  /\ active_notes' = console_midi_callback(active_notes, msg, sample_rate, wave_type)
  /\ event' = Handled(msg[1], msg)
  /\ started' = StartedAfter(event')
  /\ UNCHANGED <<envVars, oscVars, tableVars, lockVars, advanced, app, sample_rate, controller, callback, frame,
                 wave_type, pool_lock, data>>

\* midi/mod.rs: the callback installed by midi::connect_midi; it locks the
\* pool for the one statement that touches it
HandleMidiMessage(msg) ==
  /\ app = "midi_module"
  /\ PoolLockFree
  /\ active_notes' = handle_midi_message(active_notes, msg, sample_rate, wave_type)
  /\ event' = Handled(StatusNibble(msg[1]), msg)
  /\ started' = StartedAfter(event')
  /\ UNCHANGED <<envVars, oscVars, tableVars, lockVars, advanced, app, sample_rate, controller, callback, frame,
                 wave_type, pool_lock, data>>

\* gui.rs: the sample-rate combo box writes the shared rate
SetSampleRate(rate) ==
  /\ app \in {"standalone", "midi_module"}
  /\ sample_rate' = Fin(rate)
  /\ UNCHANGED <<envVars, oscVars, tableVars, lockVars, advanced, app, active_notes, controller, callback, frame,
                 event, started, wave_type, pool_lock, data>>

\* main.rs: the audio callback locks the pool, reads the rate, updates the voices
AudioCallbackBegin ==
  /\ app \in {"standalone", "midi_module"}
  /\ callback = "idle"
  /\ PoolLockFree
  /\ pool_lock' = "audio"
  /\ callback' = "frames"
  /\ frame' = 0
  /\ advanced' = [n \in DOMAIN active_notes |-> NoCalls]
  /\ data' = FreshBuffer(BufFrames * Channels)
  /\ active_notes' = PropagateSampleRate(active_notes, sample_rate)
  /\ event' = [kind |-> "buffer_begin", note |-> 0, expect |-> {}, old |-> "none"]
  /\ UNCHANGED <<envVars, oscVars, tableVars, lockVars, app, sample_rate, controller, started,
                 wave_type>>

\* one frame of the buffer under a lock taken and dropped per sample
AudioCallbackFramePerSample ==
  /\ app \in {"standalone", "midi_module"}
  /\ callback = "frames"
  /\ frame < FrameCount(Len(data), Channels)
  /\ data' = WriteSlots(data, FrameSlots(Len(data), Channels, frame),
                        soft_clip(FrameMix(active_notes)))
  /\ active_notes' = AdvanceFrame(active_notes)
  /\ advanced' = CountFrame(advanced, active_notes)
  /\ frame' = frame + 1
  /\ pool_lock' = "none"
  /\ event' = [kind |-> "frame", note |-> 0, expect |-> {}, old |-> "none"]
  /\ UNCHANGED <<envVars, oscVars, tableVars, lockVars, app, sample_rate, controller, callback,
                 started, wave_type>>

\* main.rs: one frame of the buffer: mix the voices, clip, write every channel
AudioCallbackFrame ==
  /\ app \in {"standalone", "midi_module"}
  /\ callback = "frames"
  /\ frame < FrameCount(Len(data), Channels)
  /\ data' = WriteSlots(data, FrameSlots(Len(data), Channels, frame),
                        soft_clip(FrameMix(active_notes)))
  /\ active_notes' = AdvanceFrame(active_notes)
  /\ advanced' = CountFrame(advanced, active_notes)
  /\ frame' = frame + 1
  /\ event' = [kind |-> "frame", note |-> 0, expect |-> {}, old |-> "none"]
  /\ UNCHANGED <<envVars, oscVars, tableVars, lockVars, app, sample_rate, controller, callback,
                 started, wave_type, pool_lock>>

\* main.rs: the prune after the last frame; on return the lock is dropped and
\* the buffer goes back to the device
AudioCallbackEnd ==
  /\ app \in {"standalone", "midi_module"}
  /\ callback = "frames"
  /\ frame = FrameCount(Len(data), Channels)
  /\ active_notes' = RetainActive(active_notes)
  /\ callback' = "idle"
  /\ pool_lock' = "none"
  /\ frame' = 0
  /\ advanced' = [n \in {} |-> 0]
  /\ event' = [kind |-> "prune", note |-> 0, expect |-> started, old |-> "none"]
  /\ started' = {}
  /\ data' = <<>>
  /\ UNCHANGED <<envVars, oscVars, tableVars, lockVars, app, sample_rate, controller, wave_type>>

\* lib.rs: AudioProcessor::set_process_config
SetProcessConfig(rate) ==
  /\ app = "plugin"
  /\ callback = "idle"
  /\ sample_rate' = Fin(rate)
  /\ UNCHANGED <<envVars, oscVars, tableVars, lockVars, advanced, app, active_notes, controller, callback, frame,
                 event, started, wave_type, pool_lock, data>>

\* lib.rs: EditController::set_parameter_normalized for ids 1..4
SetParameterNormalized(id, value) ==
  /\ app = "plugin"
  /\ callback = "idle"
  /\ controller' = CASE id = 1 -> [controller EXCEPT !.attack = Fin(value)]
                     [] id = 2 -> [controller EXCEPT !.decay = Fin(value)]
                     [] id = 3 -> [controller EXCEPT !.sustain = Fin(value)]
                     [] id = 4 -> [controller EXCEPT !.release = Fin(value)]
  /\ UNCHANGED <<envVars, oscVars, tableVars, lockVars, advanced, app, active_notes, sample_rate, callback, frame,
                 event, started, wave_type, pool_lock, data>>

\* lib.rs: process() is entered and starts on its event list
ProcessBegin ==
  /\ app = "plugin"
  /\ callback = "idle"
  /\ callback' = "events"
  /\ event' = [kind |-> "buffer_begin", note |-> 0, expect |-> {}, old |-> "none"]
  /\ UNCHANGED <<envVars, oscVars, tableVars, lockVars, advanced, app, active_notes, sample_rate, controller,
                 frame, started, wave_type, pool_lock, data>>

\* lib.rs: process() hands one MIDI event to handle_midi_event
ProcessMidiEvent(msg) ==
  /\ app = "plugin"
  /\ callback = "events"
  /\ PoolLockFree
  /\ active_notes' = handle_midi_event(active_notes, msg, sample_rate, controller, wave_type)
  /\ event' = Handled(StatusNibble(msg[1]), msg)
  /\ started' = StartedAfter(event')
  /\ UNCHANGED <<envVars, oscVars, tableVars, lockVars, advanced, app, sample_rate, controller, callback, frame,
                 wave_type, pool_lock, data>>

\* lib.rs: process() finds an output bus and locks the pool for the frame loop
ProcessAudioBegin ==
  /\ app = "plugin"
  /\ callback = "events"
  /\ PoolLockFree
  /\ pool_lock' = "audio"
  /\ callback' = "frames"
  /\ frame' = 0
  /\ advanced' = [n \in DOMAIN active_notes |-> NoCalls]
  /\ data' = FreshBuffer(BufFrames * Channels)
  /\ event' = [kind |-> "frames_begin", note |-> 0, expect |-> {}, old |-> "none"]
  /\ UNCHANGED <<envVars, oscVars, tableVars, lockVars, app, active_notes, sample_rate, controller,
                 started, wave_type>>

\* lib.rs: one frame of process(): mix, clip, write every channel of the bus
ProcessFrame ==
  /\ app = "plugin"
  /\ callback = "frames"
  /\ frame < BufFrames
  /\ data' = WriteSlots(data, BusSlots(Channels, frame), soft_clip(FrameMix(active_notes)))
  /\ active_notes' = AdvanceFrame(active_notes)
  /\ advanced' = CountFrame(advanced, active_notes)
  /\ frame' = frame + 1
  /\ event' = [kind |-> "frame", note |-> 0, expect |-> {}, old |-> "none"]
  /\ UNCHANGED <<envVars, oscVars, tableVars, lockVars, app, sample_rate, controller, callback,
                 started, wave_type, pool_lock>>

\* lib.rs: the retain at the end of process(); on return the lock is dropped
\* and the buffer goes back to the host
ProcessEnd ==
  /\ app = "plugin"
  /\ callback = "frames"
  /\ frame = BufFrames
  /\ active_notes' = RetainActive(active_notes)
  /\ callback' = "idle"
  /\ pool_lock' = "none"
  /\ frame' = 0
  /\ advanced' = [n \in {} |-> 0]
  /\ event' = [kind |-> "prune", note |-> 0, expect |-> started, old |-> "none"]
  /\ started' = {}
  /\ data' = <<>>
  /\ UNCHANGED <<envVars, oscVars, tableVars, lockVars, app, sample_rate, controller, wave_type>>

\* lib.rs: process() finds no output bus (data.outputs.first_mut() is None)
\* and returns after the events, without frame loop or retain
ProcessNoOutput ==
  /\ app = "plugin"
  /\ callback = "events"
  /\ callback' = "idle"
  /\ event' = [kind |-> "no_output", note |-> 0, expect |-> {}, old |-> "none"]
  /\ UNCHANGED <<envVars, oscVars, tableVars, lockVars, advanced, app, active_notes, sample_rate, controller,
                 frame, started, wave_type, pool_lock, data>>

\* values a host sets on the plugin's ADSR parameters: 0 or 0.1 s, 0 or 0.5
ParameterValues(id) == IF id = 3 THEN {0, One \div 2} ELSE {0, TimeScale}
\* the parameters the host automates: attack (1) and sustain (3)
ParameterIds == {1, 3}

Next ==
  \/ \E msg \in MidiMessages : MidiCallback(msg)
  \/ \E msg \in MidiMessages : HandleMidiMessage(msg)
  \/ \E rate \in Rates : SetSampleRate(rate)
  \/ AudioCallbackBegin
  \/ AudioCallbackFrame
  \/ AudioCallbackEnd
  \/ \E rate \in Rates : SetProcessConfig(rate)
  \/ \E id \in ParameterIds : \E value \in ParameterValues(id) : SetParameterNormalized(id, value)
  \/ ProcessBegin
  \/ \E msg \in MidiMessages : ProcessMidiEvent(msg)
  \/ ProcessAudioBegin
  \/ ProcessFrame
  \/ ProcessEnd
  \/ ProcessNoOutput

\* the voice pool under its three front ends
Spec == InitPool /\ [][Next]_vars

\* the pool while it plays: the device or host has fixed the sample rate and
\* nobody touches the rate or the plugin's parameters
InitSteady ==
  /\ env = Envelope_new(Fin(1))
  /\ op = "new"
  /\ ret = Fin(0)
  /\ adsr = AdsrIdle
  /\ OscIdle
  /\ TableIdle
  /\ app \in {"standalone", "midi_module", "plugin"}
  /\ active_notes = [n \in {} |-> 0]
  /\ advanced = [n \in {} |-> 0]
  /\ \E r \in Rates : sample_rate = Fin(r)
  /\ controller = [attack |-> Fin(0), decay |-> Fin(0), sustain |-> Fin(0), release |-> Fin(0)]
  /\ callback = "idle"
  /\ frame = 0
  /\ event = NoEvent
  /\ started = {}
  /\ wave_type = "Sine"
  /\ pool_lock = "none"
  /\ data = <<>>
  /\ LocksIdle

NextSteady ==
  \/ \E msg \in MidiMessages : MidiCallback(msg)
  \/ \E msg \in MidiMessages : HandleMidiMessage(msg)
  \/ AudioCallbackBegin
  \/ AudioCallbackFrame
  \/ AudioCallbackEnd
  \/ ProcessBegin
  \/ \E msg \in MidiMessages : ProcessMidiEvent(msg)
  \/ ProcessAudioBegin
  \/ ProcessFrame
  \/ ProcessEnd
  \/ ProcessNoOutput

SpecSteady == InitSteady /\ [][NextSteady]_vars

\* ------------------------------------ the pool while the wave kind is changed
\* gui.rs: a wave type button is clicked; the GUI thread stores the kind in the
\* shared wave_type and touches nothing else
SetWaveType(w) ==
  /\ app \in {"standalone", "midi_module"}
  /\ wave_type' = w
  /\ UNCHANGED <<envVars, oscVars, tableVars, lockVars, advanced, app, active_notes, sample_rate, controller,
                 callback, frame, event, started, pool_lock, data>>

\* the WaveType a normalized parameter value selects: (value * 3.0).round() as u8
WaveTypeOfParameter(value) ==
  LET k == (3 * value + One \div 2) \div One
  IN CASE k = 0 -> "Sine" [] k = 1 -> "Square" [] k = 2 -> "Triangle" [] OTHER -> "Sawtooth"
\* normalized values a host sets on parameter 0: 0, 1/3, 2/3 and 1
WaveParameterValues == {0, One \div 3, (2 * One) \div 3, One}

\* lib.rs: EditController::set_parameter_normalized for id 0
SetWaveTypeParameter(value) ==
  /\ app = "plugin"
  /\ callback = "idle"
  /\ wave_type' = WaveTypeOfParameter(value)
  /\ UNCHANGED <<envVars, oscVars, tableVars, lockVars, advanced, app, active_notes, sample_rate, controller,
                 callback, frame, event, started, pool_lock, data>>

NextWave ==
  \/ NextSteady
  \/ \E w \in WaveType : SetWaveType(w)
  \/ \E value \in WaveParameterValues : SetWaveTypeParameter(value)

SpecWave == InitSteady /\ [][NextWave]_vars

\* ------------------------------------------- Oscillator, driven directly
\* detunes tried, in semitones (whole octaves), and base frequencies, in phase
\* quanta per 100 ms: a quarter of, half of, once, one and a half times and
\* twice the lowest sample rate
Detunes == {0 - 12, 0, 12}
OscFrequencies == {PhaseQ \div 4, PhaseQ \div 2, PhaseQ, PhaseQ + PhaseQ \div 2, 2 * PhaseQ}

InitOsc ==
  /\ env = Envelope_new(Fin(1))
  /\ op = "new"
  /\ ret = Fin(0)
  /\ adsr = AdsrIdle
  /\ PoolIdle
  /\ TableIdle
  /\ \E w \in WaveType, d \in Detunes :
       osc = [Oscillator_new(w, Fin(1)) EXCEPT !.detune = d]
  /\ osc_ret = NoSample
  /\ osc_calls = 0
  /\ probe = NoProbe
  /\ lp = LpIdle
  /\ notch = NotchIdle

\* one call of Oscillator::get_sample
OscGetSample(base_frequency, rate) ==
  /\ osc_calls < MaxCalls
  /\ LET r == Oscillator_get_sample(osc, Fin(base_frequency), Fin(rate))
     IN /\ osc' = r.osc
        /\ osc_ret' = [sample |-> r.sample, base_frequency |-> Fin(base_frequency),
                       sample_rate |-> Fin(rate)]
  /\ osc_calls' = osc_calls + 1
  /\ UNCHANGED <<envVars, poolVars, tableVars, probe, lp, notch>>

NextOsc == \E f \in OscFrequencies, r \in Rates : OscGetSample(f, r)

SpecOsc == InitOsc /\ [][NextOsc]_vars

\* ------------------------- Envelope at the default ADSR, in exact binary32
\* next_sample calls followed after a note_on or a note_off
MaxSamples == 18901
\* the literals 0.01, 0.1, 0.7 and 0.3 of Envelope::new
Literal_0_01 == B32Literal(1, 100)
Literal_0_1 == B32Literal(1, 10)
Literal_0_7 == B32Literal(7, 10)
Literal_0_3 == B32Literal(3, 10)

\* Envelope::new(44100.0) followed by set_adsr(0.01, 0.1, 0.7, 0.3), every
\* time, level and rate a binary32 in seconds, units and Hz
InitAdsr ==
  /\ env = Envelope_new(Fin(1))
  /\ op = "new"
  /\ ret = Fin(0)
  /\ PoolIdle
  /\ OscIdle
  /\ TableIdle
  /\ adsr = [AdsrIdle EXCEPT
               !.env = set_adsr(Envelope_new(B32OfInt(DefaultSampleRate)),
                                Literal_0_01, Literal_0_1, Literal_0_7, Literal_0_3)]

AdsrNoteOn ==
  /\ adsr.env.state = "Idle"
  /\ adsr' = [adsr EXCEPT !.env = note_on(adsr.env), !.calls = 0, !.last = "note_on",
                          !.from = "none", !.ret = Fin(0)]
  /\ UNCHANGED <<env, op, ret, poolVars, oscVars, tableVars>>

AdsrNextSample ==
  /\ adsr.calls < MaxSamples
  /\ adsr' = [adsr EXCEPT !.env = next_sample(adsr.env), !.calls = adsr.calls + 1,
                          !.ret = next_sample_value(adsr.env)]
  /\ UNCHANGED <<env, op, ret, poolVars, oscVars, tableVars>>

\* the key is released at once, at the peak, or while the level is sustained
AdsrNoteOff ==
  /\ adsr.last = "note_on"
  /\ \/ adsr.env.state = "Attack" /\ adsr.calls = 0
     \/ adsr.env.state = "Decay" /\ F32Eq(adsr.env.current_level, Fin(One))
     \/ adsr.env.state = "Sustain"
  /\ adsr' = [adsr EXCEPT !.env = note_off(adsr.env), !.calls = 0, !.last = "note_off",
                          !.from = adsr.env.state, !.ret = Fin(0)]
  /\ UNCHANGED <<env, op, ret, poolVars, oscVars, tableVars>>

NextAdsr ==
  \/ AdsrNoteOn
  \/ AdsrNextSample
  \/ AdsrNoteOff

SpecAdsr == InitAdsr /\ [][NextAdsr]_vars

\* ------------------------------------------------- soft_clip, on its own
ClipInputs ==
  {Fin((i * One) \div ClipSteps) : i \in (0 - ClipRange * ClipSteps)..(ClipRange * ClipSteps)}
    \cup {NegZero, PosInf, NegInf, NaN}

InitClip ==
  /\ env = Envelope_new(Fin(1))
  /\ op = "new"
  /\ ret = Fin(0)
  /\ adsr = AdsrIdle
  /\ PoolIdle
  /\ OscIdle
  /\ TableIdle

\* soft_clip(x)
ClipOnce(x) ==
  /\ probe.n = 0
  /\ probe' = [f |-> "soft_clip", x |-> x, y |-> soft_clip(x), yy |-> Fin(0), n |-> 1]
  /\ UNCHANGED <<envVars, poolVars, tableVars, osc, osc_ret, osc_calls, lp, notch>>

\* soft_clip applied to the value the first application returned
ClipAgain ==
  /\ probe.f = "soft_clip"
  /\ probe.n = 1
  /\ probe' = [probe EXCEPT !.yy = soft_clip(probe.y), !.n = 2]
  /\ UNCHANGED <<envVars, poolVars, tableVars, osc, osc_ret, osc_calls, lp, notch>>

NextClip ==
  \/ \E x \in ClipInputs : ClipOnce(x)
  \/ ClipAgain

SpecClip == InitClip /\ [][NextClip]_vars

\* ------------------------------------- the triangle wave, applied directly
\* normalized phases in [0, 1), in quanta of 1/One
TrianglePhases == 0..(One - 1)

InitTriangle ==
  /\ env = Envelope_new(Fin(1))
  /\ op = "new"
  /\ ret = Fin(0)
  /\ adsr = AdsrIdle
  /\ PoolIdle
  /\ OscIdle
  /\ TableIdle

\* get_bandlimited_triangle(phase_norm), with the value one quantum of phase
\* earlier (the value itself at phase 0)
TriangleAt(phase_norm) ==
  /\ probe.n = 0
  /\ probe' = [f |-> "triangle", x |-> Fin(phase_norm),
               y |-> get_bandlimited_triangle(Fin(phase_norm)),
               yy |-> get_bandlimited_triangle(Fin(IF phase_norm = 0 THEN 0 ELSE phase_norm - 1)),
               n |-> 1]
  /\ UNCHANGED <<envVars, poolVars, tableVars, osc, osc_ret, osc_calls, lp, notch>>

NextTriangle == \E phase_norm \in TrianglePhases : TriangleAt(phase_norm)

SpecTriangle == InitTriangle /\ [][NextTriangle]_vars

\* ------------------------------------------------ the Mutexes of gui.rs
\* A guard bound with let lives to the end of its block; a guard that is a
\* temporary of a statement is dropped at the end of the statement, the
\* guards of one statement in reverse order of creation.
Lock(m) == <<"lock", m>>
Unlock(m) == <<"unlock", m>>
\* an audio callback that reads the volume through the config record
AudioCallbackLocksThroughConfig ==
  {<<Lock("active_notes"), Lock("sample_rate"), Unlock("sample_rate"),
     Lock("config"), Lock("volume"), Unlock("volume"), Unlock("config"),
     Unlock("active_notes")>>}
\* start_synth, the audio callbacks: notes_guard for the whole callback, the
\* sample rate and the volume read through temporaries
AudioCallbackLocks ==
  {<<Lock("active_notes"), Lock("sample_rate"), Unlock("sample_rate"),
     Lock("volume"), Unlock("volume"), Unlock("active_notes")>>}
\* connect_midi, the MIDI callback: notes for the whole event, the sample
\* rate and the wave type read through temporaries
MidiCallbackLocks ==
  {<<Lock("active_notes"), Lock("sample_rate"), Unlock("sample_rate"),
     Lock("wave_type"), Unlock("wave_type"), Unlock("active_notes")>>}
\* the GUI thread: the blocks of SynthApp that lock something
GuiLocks ==
  { \* config alone (init_audio_hosts, update_devices, start_synth, stop_synth, update)
    <<Lock("config"), Unlock("config")>>,
    \* update_sample_rates: the shared rate written under the config guard
    <<Lock("config"), Lock("sample_rate"), Unlock("sample_rate"), Unlock("config")>>,
    \* update, rate combo box: config dropped, then the shared rate written
    <<Lock("config"), Unlock("config"), Lock("sample_rate"), Unlock("sample_rate")>>,
    \* update, volume slider: config.lock().volume.lock()
    <<Lock("config"), Lock("volume"), Unlock("volume"), Unlock("config")>>,
    \* update, wave buttons: config.lock().wave_type.lock()
    <<Lock("config"), Lock("wave_type"), Unlock("wave_type"), Unlock("config")>>,
    \* update, status panel: rate and pool size read under the config guard
    <<Lock("config"), Lock("sample_rate"), Unlock("sample_rate"),
      Lock("active_notes"), Unlock("active_notes"), Unlock("config")>> }
\* what a thread may run next
LockPrograms(t) ==
  CASE t = "audio" -> AudioCallbackLocks
    [] t = "midi" -> MidiCallbackLocks
    [] t = "gui" -> GuiLocks

\* the Mutexes a thread holds
HeldBy(t) == {m \in Mutexes : mutex[m] = t}

InitLocks ==
  /\ env = Envelope_new(Fin(1))
  /\ op = "new"
  /\ ret = Fin(0)
  /\ adsr = AdsrIdle
  /\ PoolIdle
  /\ OscIdle
  /\ TableIdle

\* a callback is invoked, or the GUI thread enters one of its blocks
ThreadBegin(t, program) ==
  /\ thread[t] = <<>>
  /\ thread' = [thread EXCEPT ![t] = program]
  /\ UNCHANGED <<envVars, oscVars, tableVars, app, active_notes, advanced, sample_rate,
                 controller, callback, frame, event, started, wave_type, pool_lock, data,
                 mutex, lock_order>>

\* Mutex::lock returns: the Mutex was free and now belongs to the thread
ThreadLock(t) ==
  /\ thread[t] # <<>>
  /\ Head(thread[t])[1] = "lock"
  /\ mutex[Head(thread[t])[2]] = "none"
  /\ mutex' = [mutex EXCEPT ![Head(thread[t])[2]] = t]
  /\ lock_order' = lock_order \cup {<<h, Head(thread[t])[2]>> : h \in HeldBy(t)}
  /\ thread' = [thread EXCEPT ![t] = Tail(thread[t])]
  /\ UNCHANGED <<envVars, oscVars, tableVars, app, active_notes, advanced, sample_rate,
                 controller, callback, frame, event, started, wave_type, pool_lock, data>>

\* a MutexGuard is dropped
ThreadUnlock(t) ==
  /\ thread[t] # <<>>
  /\ Head(thread[t])[1] = "unlock"
  /\ mutex' = [mutex EXCEPT ![Head(thread[t])[2]] = "none"]
  /\ thread' = [thread EXCEPT ![t] = Tail(thread[t])]
  /\ UNCHANGED <<envVars, oscVars, tableVars, app, active_notes, advanced, sample_rate,
                 controller, callback, frame, event, started, wave_type, pool_lock, data,
                 lock_order>>

NextLocks ==
  \/ \E t \in LockThreads : \E program \in LockPrograms(t) : ThreadBegin(t, program)
  \/ \E t \in LockThreads : ThreadLock(t)
  \/ \E t \in LockThreads : ThreadUnlock(t)

SpecLocks == InitLocks /\ [][NextLocks]_vars

\* ------------------------------------------------- filters, driven directly
\* base frequencies and sample rates handed to get_sample, in Hz
FilterFrequencies == {440, 13333, 16000}
FilterRates == {DefaultSampleRate, 48000}
\* notch frequencies (the sample rate is PhaseQ or twice that), and Q values
NotchFrequencies == {1, 2, 3}
NotchRates == {PhaseQ, 2 * PhaseQ}
NotchQs == {One \div 2, One, 2 * One}

InitFilter ==
  /\ env = Envelope_new(Fin(1))
  /\ op = "new"
  /\ ret = Fin(0)
  /\ adsr = AdsrIdle
  /\ PoolIdle
  /\ OscIdle
  /\ TableIdle

\* audio::Oscillator::get_sample as far as the filter goes: the cutoff
\* update, and the filter run on a raw sample of 1.0 when the frequency is
\* above a quarter of the rate
LpGetSample(base_frequency, rate) ==
  /\ lp.calls < MaxCalls
  /\ LET frequency == B32OfInt(base_frequency)
         sr == B32OfInt(rate)
         o == UpdateCutoff(lp.o, frequency, sr)
         applied == FilterApplied(frequency, sr)
     IN lp' = [o |-> IF applied
                     THEN [o EXCEPT !.filter = LowPassFilter_process(o.filter, B32OfInt(1))]
                     ELSE o,
               frequency |-> frequency, sample_rate |-> sr,
               applied |-> applied, calls |-> lp.calls + 1]
  /\ UNCHANGED <<envVars, poolVars, tableVars, osc, osc_ret, osc_calls, probe, notch>>

\* NotchFilter::set_frequency
NotchSetFrequency(frequency) ==
  /\ notch.calls < MaxCalls
  /\ notch' = [f |-> NotchFilter_set_frequency(notch.f, Fin(frequency)),
               last |-> "set_frequency", calls |-> notch.calls + 1]
  /\ UNCHANGED <<envVars, poolVars, tableVars, osc, osc_ret, osc_calls, probe, lp>>

\* NotchFilter::set_q
NotchSetQ(q) ==
  /\ notch.calls < MaxCalls
  /\ notch' = [f |-> NotchFilter_set_q(notch.f, Fin(q)),
               last |-> "set_q", calls |-> notch.calls + 1]
  /\ UNCHANGED <<envVars, poolVars, tableVars, osc, osc_ret, osc_calls, probe, lp>>

\* NotchFilter::set_sample_rate
NotchSetSampleRate(rate) ==
  /\ notch.calls < MaxCalls
  /\ notch' = [f |-> NotchFilter_set_sample_rate(notch.f, Fin(rate)),
               last |-> "set_sample_rate", calls |-> notch.calls + 1]
  /\ UNCHANGED <<envVars, poolVars, tableVars, osc, osc_ret, osc_calls, probe, lp>>

\* NotchFilter::process on an input of 1.0
NotchProcess ==
  /\ notch.calls < MaxCalls
  /\ notch' = [f |-> NotchFilter_process(notch.f, Fin(One)).filter,
               last |-> "process", calls |-> notch.calls + 1]
  /\ UNCHANGED <<envVars, poolVars, tableVars, osc, osc_ret, osc_calls, probe, lp>>

NextFilter ==
  \/ \E f \in FilterFrequencies, r \in FilterRates : LpGetSample(f, r)
  \/ \E f \in NotchFrequencies : NotchSetFrequency(f)
  \/ \E q \in NotchQs : NotchSetQ(q)
  \/ \E r \in NotchRates : NotchSetSampleRate(r)
  \/ NotchProcess

SpecFilter == InitFilter /\ [][NextFilter]_vars

\* ----------------------------------- WavetableOscillator, driven directly
\* frequencies tried: a sixteenth, an eighth and three sixteenths of a cycle per
\* 100 ms, so that some increments are fractions of a table index
WtFrequencies == {One \div 16, One \div 8, (3 * One) \div 16}

\* the sine table once get_sine_table has run
TablePublished ==
  /\ SINE_TABLE = [state |-> "complete", value |-> 1]
  /\ tables = <<BuildSineTable>>

InitWavetable ==
  /\ env = Envelope_new(Fin(1))
  /\ op = "new"
  /\ ret = Fin(0)
  /\ adsr = AdsrIdle
  /\ PoolIdle
  /\ OscIdle
  /\ TablePublished
  /\ pc = [t \in Threads |-> "idle"]
  /\ wt = [t \in Threads |-> NoOscillator]
  /\ \E r \in Rates, f \in WtFrequencies :
       wosc = WavetableOscillator_new(Fin(r), Fin(f), SINE_TABLE.value)
  /\ wosc_ret = NoCall

WtSetFrequency(frequency, rate) ==
  /\ wosc_ret.calls < MaxCalls
  /\ wosc' = WavetableOscillator_set_frequency(wosc, Fin(frequency), Fin(rate))
  /\ wosc_ret' = [op |-> "set_frequency", prev |-> wosc_ret.op, sample |-> Fin(0),
                  at |-> wosc.phase, calls |-> wosc_ret.calls + 1]
  /\ UNCHANGED <<envVars, poolVars, oscVars, SINE_TABLE, tables, pc, wt>>

WtGetSample ==
  /\ wosc_ret.calls < MaxCalls
  /\ LET r == WavetableOscillator_get_sample(wosc, tables[wosc.wavetable])
     IN /\ wosc' = r.osc
        /\ wosc_ret' = [op |-> "get_sample", prev |-> wosc_ret.op, sample |-> r.sample,
                        at |-> wosc.phase, calls |-> wosc_ret.calls + 1]
  /\ UNCHANGED <<envVars, poolVars, oscVars, SINE_TABLE, tables, pc, wt>>

NextWavetable ==
  \/ \E f \in WtFrequencies, r \in Rates : WtSetFrequency(f, r)
  \/ WtGetSample

SpecWavetable == InitWavetable /\ [][NextWavetable]_vars

\* ------------------------------ the shared sine table, built by many threads
\* Each thread runs WavetableOscillator::new, then uses its oscillator and
\* drops it.  pc[t] is the thread's position: "idle", "get_or_init" (inside
\* get_sine_table), "wait" (parked on the OnceLock while another thread
\* initialises), "build" and "publish" (inside the closure, as the
\* initialiser), "clone" (the table is there), "done" (the oscillator exists),
\* "tuned" (after set_frequency), "used" (after get_sample).
InitTable ==
  /\ env = Envelope_new(Fin(1))
  /\ op = "new"
  /\ ret = Fin(0)
  /\ adsr = AdsrIdle
  /\ PoolIdle
  /\ OscIdle
  /\ TableIdle

\* OnceLock::get_or_init, as one whose claim of the initialiser's role leaves
\* the cell looking untouched
OnceBeginUnguarded(once) == once
\* OnceLock::get_or_init finding the cell empty: the caller becomes the one
\* initialiser, atomically
OnceBegin(once) == [once EXCEPT !.state = "running"]

ThreadNew(t) ==
  /\ pc[t] = "idle"
  /\ pc' = [pc EXCEPT ![t] = "get_or_init"]
  /\ UNCHANGED <<envVars, poolVars, oscVars, SINE_TABLE, tables, wt, wosc, wosc_ret>>

ThreadGetOrInit(t) ==
  /\ pc[t] = "get_or_init"
  /\ CASE SINE_TABLE.state = "complete" ->
            /\ pc' = [pc EXCEPT ![t] = "clone"]
            /\ UNCHANGED SINE_TABLE
       [] SINE_TABLE.state = "running" ->
            /\ pc' = [pc EXCEPT ![t] = "wait"]
            /\ UNCHANGED SINE_TABLE
       [] SINE_TABLE.state = "incomplete" ->
            /\ pc' = [pc EXCEPT ![t] = "build"]
            /\ SINE_TABLE' = OnceBegin(SINE_TABLE)
  /\ UNCHANGED <<envVars, poolVars, oscVars, tables, wt, wosc, wosc_ret>>

ThreadWake(t) ==
  /\ pc[t] = "wait"
  /\ SINE_TABLE.state = "complete"
  /\ pc' = [pc EXCEPT ![t] = "clone"]
  /\ UNCHANGED <<envVars, poolVars, oscVars, SINE_TABLE, tables, wt, wosc, wosc_ret>>

\* the closure fills a fresh table and wraps it in an Arc
ThreadBuild(t) ==
  /\ pc[t] = "build"
  /\ tables' = Append(tables, BuildSineTable)
  /\ wt' = [wt EXCEPT ![t].wavetable = Len(tables) + 1]
  /\ pc' = [pc EXCEPT ![t] = "publish"]
  /\ UNCHANGED <<envVars, poolVars, oscVars, SINE_TABLE, wosc, wosc_ret>>

\* the OnceLock stores the closure's value and completes
ThreadPublish(t) ==
  /\ pc[t] = "publish"
  /\ SINE_TABLE' = [state |-> "complete", value |-> wt[t].wavetable]
  /\ pc' = [pc EXCEPT ![t] = "clone"]
  /\ UNCHANGED <<envVars, poolVars, oscVars, tables, wt, wosc, wosc_ret>>

\* .clone() of the stored Arc, and the rest of WavetableOscillator::new
ThreadConstruct(t, rate, frequency) ==
  /\ pc[t] = "clone"
  /\ wt' = [wt EXCEPT ![t] = WavetableOscillator_new(Fin(rate), Fin(frequency), SINE_TABLE.value)]
  /\ pc' = [pc EXCEPT ![t] = "done"]
  /\ UNCHANGED <<envVars, poolVars, oscVars, SINE_TABLE, tables, wosc, wosc_ret>>

ThreadSetFrequency(t, frequency, rate) ==
  /\ pc[t] = "done"
  /\ wt' = [wt EXCEPT ![t] = WavetableOscillator_set_frequency(wt[t], Fin(frequency), Fin(rate))]
  /\ pc' = [pc EXCEPT ![t] = "tuned"]
  /\ UNCHANGED <<envVars, poolVars, oscVars, SINE_TABLE, tables, wosc, wosc_ret>>

ThreadGetSample(t) ==
  /\ pc[t] \in {"done", "tuned"}
  /\ wt' = [wt EXCEPT ![t] = WavetableOscillator_get_sample(wt[t], tables[wt[t].wavetable]).osc]
  /\ pc' = [pc EXCEPT ![t] = "used"]
  /\ UNCHANGED <<envVars, poolVars, oscVars, SINE_TABLE, tables, wosc, wosc_ret>>

\* the oscillator goes out of scope; the OnceLock keeps the table alive
ThreadDrop(t) ==
  /\ pc[t] = "used"
  /\ wt' = [wt EXCEPT ![t] = NoOscillator]
  /\ pc' = [pc EXCEPT ![t] = "idle"]
  /\ UNCHANGED <<envVars, poolVars, oscVars, SINE_TABLE, tables, wosc, wosc_ret>>

NextTable ==
  \E t \in Threads :
    \/ ThreadNew(t)
    \/ ThreadGetOrInit(t)
    \/ ThreadWake(t)
    \/ ThreadBuild(t)
    \/ ThreadPublish(t)
    \/ \E r \in Rates, f \in WtFrequencies : ThreadConstruct(t, r, f)
    \/ \E f \in WtFrequencies, r \in Rates : ThreadSetFrequency(t, f, r)
    \/ ThreadGetSample(t)
    \/ ThreadDrop(t)

SpecTable == InitTable /\ [][NextTable]_vars

\* C1: once a handler has handled a NoteOn with velocity > 0 for a note, the
\* pool holds a voice for that note whose envelope is in Attack, and every
\* note started and not released since is still in the pool after the prune
\* that ends the next buffer.
C1_NoteOnStartsVoice ==
  /\ event.kind = "note_on" =>
       /\ event.note \in DOMAIN active_notes
       /\ active_notes[event.note].envelope.state = "Attack"
  /\ event.kind = "prune" => event.expect \subseteq DOMAIN active_notes

\* the per-sample increments recalculate_increments yields for envelope e
\* at sample rate `rate`
IncrementsAt(e, rate) == recalculate_increments([e EXCEPT !.sample_rate = rate])

\* C10: while the audio callback holds the pool, i.e. once it has propagated
\* the shared sample rate to the voices, every voice's envelope increments
\* equal the formulas evaluated at the voice's (new) sample rate.
C10_IncrementsFollowSampleRate ==
  (callback = "frames" /\ app # "plugin") =>
    \A n \in DOMAIN active_notes :
      LET e == active_notes[n].envelope
          r == IncrementsAt(e, active_notes[n].sample_rate)
      IN /\ e.attack_increment = r.attack_increment
         /\ e.decay_increment = r.decay_increment
         /\ e.release_increment = r.release_increment
\* C11: the pool is keyed by note identity (one voice per identity, all of
\* them identities a MIDI event can carry), and right after a NoteOn with
\* velocity > 0 for an identity that already had a voice, whatever the state
\* of that voice's envelope, the pool's voice for the identity is a new one:
\* its envelope level is 0 and both oscillator phases are 0.
C11_NoteOnReplacesVoice ==
  /\ DOMAIN active_notes \subseteq NoteIds
  /\ (event.kind = "note_on" /\ event.old # "none") =>
       /\ event.note \in DOMAIN active_notes
       /\ active_notes[event.note].envelope.current_level = Fin(0)
       /\ active_notes[event.note].osc1.phase = Fin(0)
       /\ active_notes[event.note].osc2.phase = Fin(0)

\* a NoteOn has just replaced a voice that was sustaining
C11_Witness ==
  /\ event.kind = "note_on"
  /\ event.old = "Sustain"
  /\ event.note \in DOMAIN active_notes
  /\ active_notes[event.note].envelope.state = "Attack"
C13_NoIdleVoiceAtReturn ==
  event.kind \in {"prune", "no_output"} =>
    \A n \in DOMAIN active_notes : active_notes[n].envelope.state # "Idle"

\* the same for the returns that follow a frame loop: the stand-alone callbacks
\* and the process() calls that found an output bus
C13_NoIdleVoiceAfterPrune ==
  event.kind = "prune" =>
    \A n \in DOMAIN active_notes : active_notes[n].envelope.state # "Idle"

\* the prune runs once per buffer, after the last frame, and removes exactly
\* the voices whose envelope is Idle: voices leave the pool in no other step
C13_PruneOncePerBuffer ==
  [][/\ (callback = "frames" /\ callback' = "idle") =>
          /\ frame = BufFrames
          /\ DOMAIN active_notes' =
               {n \in DOMAIN active_notes : active_notes[n].envelope.state # "Idle"}
          /\ \A n \in DOMAIN active_notes' : active_notes'[n] = active_notes[n]
     /\ ~(callback = "frames" /\ callback' = "idle") =>
          DOMAIN active_notes \subseteq DOMAIN active_notes']_vars
\* C14: the audio callback acquires the pool lock once per output buffer, in
\* the step that enters the buffer and before its first frame, and holds it
\* through every frame until the prune after the last frame, where it is
\* released; no frame acquires or releases the lock.
C14_LockOncePerBuffer ==
  [][/\ callback = "frames" => pool_lock = "audio"
     /\ (pool_lock # "audio" /\ pool_lock' = "audio") =>
          (callback # "frames" /\ callback' = "frames" /\ frame' = 0)
     /\ (pool_lock = "audio" /\ pool_lock' # "audio") =>
          /\ callback = "frames" /\ callback' = "idle"
          /\ frame = BufFrames
          /\ event'.kind = "prune"
     /\ (callback = "frames" /\ frame' # frame /\ callback' = "frames") =>
          (pool_lock = "audio" /\ pool_lock' = "audio")]_vars

\* the stand-alone callback still holds the lock after the last frame of a buffer
C14_Witness ==
  /\ app = "standalone"
  /\ callback = "frames"
  /\ frame = BufFrames
  /\ pool_lock = "audio"
  /\ DOMAIN active_notes # {}
\* C15: the audio callback and the MIDI handlers never work on the pool at
\* the same time: a note event changes the pool only while the callback does
\* not hold the lock, so it is applied entirely before or entirely after a
\* buffer, and from one frame of a buffer to the next the set of note
\* identities in the pool is the same.
C15_EventsBetweenBuffers ==
  [][/\ (callback = "frames" /\ callback' = "frames") =>
          /\ DOMAIN active_notes' = DOMAIN active_notes
          /\ event'.kind \notin {"note_on", "note_off", "ignored"}
     /\ (event'.kind \in {"note_on", "note_off"} /\ active_notes' # active_notes) =>
          (pool_lock = "none" /\ pool_lock' = "none" /\ callback # "frames")]_vars

\* the stand-alone callback is between two frames of a buffer and the pool
\* holds a voice that a note event put there before the buffer
C15_Witness ==
  /\ app = "standalone"
  /\ callback = "frames"
  /\ frame = 1
  /\ DOMAIN active_notes # {}
  /\ pool_lock = "audio"
\* C16: while the audio callback mixes a buffer with an empty voice pool, every
\* sample it has written is exactly 0 (positive zero in the float path, the
\* integer 0 in the 32-bit integer path), for every frame and every channel.
C16_EmptyPoolIsSilent ==
  (callback = "frames" /\ DOMAIN active_notes = {}) =>
    \A i \in 1..(frame * Channels) :
      /\ OutputSample("f32", data[i]) = Fin(0)
      /\ OutputSample("i32", data[i]) = [k |-> "i32", v |-> 0]

\* the callback has mixed every frame of a buffer with an empty pool
C16_Witness ==
  /\ callback = "frames"
  /\ frame = BufFrames
  /\ DOMAIN active_notes = {}
  /\ Len(data) = BufFrames * Channels
  /\ \A i \in 1..Len(data) : data[i] = Fin(0)

\* C17: in every frame the callback has mixed, all channels of the frame hold
\* the same sample, and when the callback returns every slot of the buffer has
\* been written, also when the buffer's frame count is not a multiple of the
\* internal block.
C17_AllChannelsAllSlots ==
  [][/\ callback = "frames" =>
          \A f \in 0..(frame - 1) : \A c \in 1..Channels :
            /\ data[f * Channels + c] # Stale
            /\ data[f * Channels + c] = data[f * Channels + 1]
     /\ (callback = "frames" /\ callback' = "idle") =>
          /\ Len(data) = BufFrames * Channels
          /\ \A i \in 1..Len(data) : data[i] # Stale]_vars

\* the stand-alone callback has written the last frame of a buffer whose frame
\* count is not a multiple of the block, with a sounding voice in the mix
C17_Witness ==
  /\ app = "standalone"
  /\ BufFrames % BUFFER_SIZE # 0
  /\ callback = "frames"
  /\ frame = BufFrames
  /\ \A i \in 1..(BufFrames * Channels) : data[i] # Stale
  /\ data[BufFrames * Channels] # Fin(0)

\* C18: the phase of an Oscillator lies in [0, one cycle) after every
\* get_sample call, for every base frequency, detune and sample rate, effective
\* frequencies at or above the sample rate included.
C18_PhaseWithinCycle ==
  osc_calls > 0 => (IsFinite(osc.phase) /\ osc.phase.v >= 0 /\ osc.phase.v < PhaseQ)
\* C18, the part that holds: a call whose effective frequency is at most the
\* sample rate keeps a phase that was within the cycle within it.
C18_PhaseWithinCycleUpToRate ==
  [][(/\ osc_calls' = osc_calls + 1
      /\ IsFinite(osc.phase) /\ osc.phase.v >= 0 /\ osc.phase.v < PhaseQ
      /\ FLe(DetunedFrequency(osc_ret'.base_frequency, osc.detune),
             FMul(osc_ret'.sample_rate, Fin(PhaseQ))))
     => (IsFinite(osc'.phase) /\ osc'.phase.v >= 0 /\ osc'.phase.v < PhaseQ)]_vars
\* a call at exactly the sample rate has left the phase within the cycle
C18_AtRate ==
  /\ osc_calls > 0
  /\ DetunedFrequency(osc_ret.base_frequency, osc.detune) = FMul(osc_ret.sample_rate, Fin(PhaseQ))
  /\ IsFinite(osc.phase) /\ osc.phase.v >= 0 /\ osc.phase.v < PhaseQ

\* C19: WavetableOscillator::set_frequency changes only phase_increment, phase
\* and the wavetable reference stay as they were, so the sample read right
\* after set_frequency is the one interpolated at the phase reached before the
\* call.
C19_SetFrequencyKeepsPhase ==
  [][/\ wosc_ret'.op = "set_frequency" =>
          /\ wosc'.phase = wosc.phase
          /\ wosc'.wavetable = wosc.wavetable
     /\ (wosc_ret.op = "set_frequency" /\ wosc_ret'.op = "get_sample") =>
          /\ wosc_ret'.at = wosc_ret.at
          /\ wosc_ret'.sample
               = WavetableOscillator_get_sample([wosc EXCEPT !.phase = wosc_ret.at],
                                                tables[wosc.wavetable]).sample]_vars

\* a sample has been read right after a set_frequency, between two table
\* entries and away from the start of the table
C19_Witness ==
  /\ wosc_ret.op = "get_sample"
  /\ wosc_ret.prev = "set_frequency"
  /\ wosc_ret.at.v > 0
  /\ wosc_ret.at.v % One # 0
  /\ wosc_ret.sample.v # 0

\* C20: whatever the interleaving of the threads creating
\* WavetableOscillators, the sine table is built exactly once, every oscillator
\* references that one table, and nothing writes to the table or replaces it
\* once it is published.
C20_TableBuiltOnce ==
  /\ [](/\ Len(tables) <= 1
        /\ SINE_TABLE.state = "complete" => (Len(tables) = 1 /\ SINE_TABLE.value = 1)
        /\ \A t \in Threads :
             pc[t] \in {"clone", "done", "tuned", "used"} => SINE_TABLE.state = "complete"
        /\ \A t \in Threads :
             pc[t] \in {"done", "tuned", "used"} => wt[t].wavetable = SINE_TABLE.value)
  /\ [][SINE_TABLE.state = "complete" => (SINE_TABLE' = SINE_TABLE /\ tables' = tables)]_vars

\* every thread holds an oscillator on the one table, one of them has read a
\* sample from it
C20_Witness ==
  /\ \A t \in Threads : pc[t] \in {"done", "tuned", "used"} /\ wt[t].wavetable = 1
  /\ \E t \in Threads : pc[t] = "used"
  /\ Len(tables) = 1

\* C21: once the selected wave kind has been changed, every voice already in
\* the pool produces the newly selected waveform from the next mixed buffer on:
\* when a buffer's frame loop starts, each voice's oscillators have the
\* selected kind.
C21_WaveTypeReachesVoices ==
  [][(callback # "frames" /\ callback' = "frames") =>
       \A n \in DOMAIN active_notes' :
         /\ active_notes'[n].osc1.wave_type = wave_type'
         /\ active_notes'[n].osc2.wave_type = wave_type']_vars
\* C21, the part that holds: a voice created by a NoteOn has the kind that is
\* selected at that moment.
C21_WaveTypeAtNoteOn ==
  [][(/\ event'.kind = "note_on"
      /\ active_notes' # active_notes
      /\ event'.note \in DOMAIN active_notes') =>
        active_notes'[event'.note].osc1.wave_type = wave_type]_vars

\* C22: with attack 0.01 s, decay 0.1 s, sustain 0.7, release 0.3 s at 44100 Hz,
\* ceil(0.01 * 44100) = 441 next_sample calls after note_on bring current_level
\* to 1.0, and after note_off the level is 0 and the state Idle within
\* ceil(0.3 * 44100 / 0.7) = 18900 next_sample calls.
C22_DefaultAdsrTiming ==
  LET AttackCalls == (DefaultSampleRate + 99) \div 100
      ReleaseCalls == (3 * DefaultSampleRate + 6) \div 7
  IN /\ (adsr.last = "note_on" /\ adsr.calls = AttackCalls) =>
          /\ F32Eq(adsr.env.current_level, Fin(One))
          /\ adsr.env.state = "Decay"
     /\ (adsr.last = "note_off" /\ adsr.calls >= ReleaseCalls) =>
          /\ F32Eq(adsr.env.current_level, Fin(0))
          /\ adsr.env.state = "Idle"

\* a key released while sustaining has come to rest after more calls than the
\* attack takes
C22_Witness ==
  /\ adsr.last = "note_off"
  /\ adsr.from = "Sustain"
  /\ adsr.env.state = "Idle"
  /\ adsr.calls > (DefaultSampleRate + 99) \div 100
  /\ adsr.calls <= (3 * DefaultSampleRate + 6) \div 7

\* C23: soft_clip maps every input to an output strictly inside (-1, 1), and
\* for |x| < 1 a second application changes the value by no more than an
\* eighth.
C23_SoftClipStrictlyInside ==
  probe.f = "soft_clip" =>
    /\ FLt(Fin(0 - One), probe.y) /\ FLt(probe.y, Fin(One))
    /\ (probe.n = 2 /\ FLt(Fin(0 - One), probe.x) /\ FLt(probe.x, Fin(One))) =>
         Abs(probe.yy.v - probe.y.v) * 8 <= One

\* C23, amended: soft_clip maps every input other than NaN into [-1, 1], the
\* ends included (they are met by +-inf and by every finite input large
\* enough for tanh to round to +-1.0), and every |x| < 1 strictly inside;
\* applied again to the value it returned for an |x| < 1, it changes that value
\* by no more than an eighth.
C23_SoftClipWithin ==
  (probe.f = "soft_clip" /\ ~IsNaN(probe.x)) =>
    /\ FLe(Fin(0 - One), probe.y) /\ FLe(probe.y, Fin(One))
    /\ (FLt(Fin(0 - One), probe.x) /\ FLt(probe.x, Fin(One))) =>
         /\ FLt(Fin(0 - One), probe.y) /\ FLt(probe.y, Fin(One))
         /\ probe.n = 2 => Abs(probe.yy.v - probe.y.v) * 8 <= One

\* soft_clip has been applied twice to an input between a half and 1, and the
\* second application has lowered the value
C23_Witness ==
  /\ probe.f = "soft_clip"
  /\ probe.n = 2
  /\ probe.x.v * 2 > One /\ probe.x.v < One
  /\ probe.yy.v < probe.y.v

\* C24: while a callback runs its frame loop, every voice of the pool has had
\* as many next_sample calls on its envelope, and as many get_sample calls on
\* each of its two oscillators, as frames have been written; when the loop
\* ends that number is the buffer's frame count, also for a voice whose
\* envelope went Idle on the way
C24_VoicesAdvancedPerFrame ==
  callback = "frames" =>
    /\ DOMAIN advanced = DOMAIN active_notes
    /\ \A n \in DOMAIN active_notes :
         advanced[n] = [next_sample |-> frame, osc1 |-> frame, osc2 |-> frame]

\* a frame loop has ended with a voice that finished before the last frame
\* and was called in every frame all the same
C24_Witness ==
  /\ callback = "frames"
  /\ frame = BufFrames
  /\ \E n \in DOMAIN active_notes :
       /\ is_finished(active_notes[n].envelope)
       /\ ~FEq(active_notes[n].osc1.phase, Fin(0))
       /\ advanced[n].next_sample = BufFrames
       /\ advanced[n].osc1 = BufFrames

\* C25: whenever a filter is run its coefficients are those of its current
\* parameters: the alpha of the oscillator's low-pass is dt / (rc + dt) for
\* the cutoff of the frequency and the sample rate of the get_sample call
\* that runs it, and the notch coefficients are the design formulas applied
\* to its current frequency, Q and sample rate
C25_CoefficientsCurrent ==
  /\ lp.applied =>
       lp.o.filter.alpha =
         LowPassFilter_alpha(ClampedCutoff(CutoffOf(lp.frequency, lp.sample_rate),
                                           lp.sample_rate), lp.sample_rate)
  /\ notch.f = calculate_coefficients(notch.f)

\* C25, the notch filter alone: after every setter, and across process, the
\* coefficients are the design formulas applied to the current parameters
C25_NotchCurrent ==
  /\ notch.f.a0 = Fin(One)
  /\ notch.f.b0 = calculate_coefficients(notch.f).b0
  /\ notch.f.b1 = calculate_coefficients(notch.f).b1
  /\ notch.f.b2 = calculate_coefficients(notch.f).b2
  /\ notch.f.a1 = calculate_coefficients(notch.f).a1
  /\ notch.f.a2 = calculate_coefficients(notch.f).a2

C27_NoDeadlock ==
  LET Wants(t) == IF thread[t] # <<>> /\ Head(thread[t])[1] = "lock"
                  THEN Head(thread[t])[2] ELSE "none"
      WaitsFor(t) == IF t = "none" \/ Wants(t) = "none" THEN "none" ELSE mutex[Wants(t)]
  IN /\ \A t \in LockThreads :
          t \notin {WaitsFor(t), WaitsFor(WaitsFor(t)), WaitsFor(WaitsFor(WaitsFor(t)))}
     /\ \A S \in (SUBSET Mutexes) \ {{}} :
          \E m \in S : \A h \in S : <<h, m>> \notin lock_order

\* the GUI thread holds the config record and waits for the voice pool while
\* the audio callback holds the pool and is about to lock the volume, after
\* a MIDI callback has run
C27_Witness ==
  /\ mutex["config"] = "gui"
  /\ thread["gui"] # <<>> /\ Head(thread["gui"]) = <<"lock", "active_notes">>
  /\ mutex["active_notes"] = "audio"
  /\ thread["audio"] # <<>> /\ Head(thread["audio"]) = <<"lock", "volume">>
  /\ <<"config", "active_notes">> \in lock_order
  /\ <<"active_notes", "wave_type">> \in lock_order

\* C28: a handler that has handled a NoteOn with velocity 0 has neither
\* created nor replaced a voice: the pool has the same notes; a voice the
\* pool held for the note has its envelope in Release and is otherwise as it
\* was, and a pool without a voice for the note is unchanged
C28_VelocityZeroReleases ==
  [][(event'.kind = "note_off" /\ event'.status = 144) =>
       /\ DOMAIN active_notes' = DOMAIN active_notes
       /\ event'.note \in DOMAIN active_notes =>
            /\ active_notes'[event'.note].envelope.state = "Release"
            /\ active_notes' =
                 [active_notes EXCEPT ![event'.note].envelope.state = "Release"]
       /\ event'.note \notin DOMAIN active_notes => active_notes' = active_notes]_vars

\* C28, the part that holds: the pool a NoteOn with velocity 0 leaves is the
\* pool the same handler's NoteOff branch leaves for that note; no voice is
\* created or replaced, a voice whose envelope was started goes to Release,
\* and a voice whose envelope was never started stays Idle
C28_VelocityZeroIsNoteOff ==
  [][(event'.kind = "note_off" /\ event'.status = 144) =>
       LET off == <<128, event'.note, 0>>
       IN /\ active_notes' =
               CASE app = "standalone" ->
                      console_midi_callback(active_notes, off, sample_rate, wave_type)
                 [] app = "midi_module" ->
                      handle_midi_message(active_notes, off, sample_rate, wave_type)
                 [] app = "plugin" ->
                      handle_midi_event(active_notes, off, sample_rate, controller, wave_type)
          /\ DOMAIN active_notes' = DOMAIN active_notes
          /\ \A n \in DOMAIN active_notes :
               /\ n # event'.note => active_notes'[n] = active_notes[n]
               /\ n = event'.note =>
                    active_notes'[n] =
                      [active_notes[n] EXCEPT !.envelope.state =
                         IF active_notes[n].envelope.state = "Idle" THEN "Idle" ELSE "Release"]
          /\ app = "standalone" =>
               \A n \in DOMAIN active_notes : active_notes[n].envelope.state # "Idle"]_vars

\* a NoteOn with velocity 0 has been handled for a note whose voice was in
\* Attack, and the voice is in Release
C28_ReleasedByVelocityZero ==
  /\ event.kind = "note_off"
  /\ event.status = 144
  /\ event.old = "Attack"
  /\ event.note \in DOMAIN active_notes
  /\ active_notes[event.note].envelope.state = "Release"

\* C29: whatever calls of set_adsr (between notes), set_velocity, note_on,
\* note_off and next_sample an envelope has had since new, with valid or
\* invalid arguments and any sample rate including 0, while its state is Idle
\* its current_level is 0.0, and a next_sample or note_off call on an Idle
\* envelope returns 0.0 or nothing and leaves the envelope as it was
C29_IdleIsSilent ==
  /\ [](env.state = "Idle" => env.current_level = Fin(0))
  /\ [][(env.state = "Idle" /\ op' \in {"next_sample", "note_off"}) =>
          (env' = env /\ ret' = Fin(0))]_vars

\* note_off was called on an envelope that was Idle after its increments had
\* been computed, and it is still Idle
C29_Witness ==
  /\ op = "note_off"
  /\ env.state = "Idle"
  /\ IsFinite(env.release_increment) /\ env.release_increment.v > 0

\* C30: at every normalized phase in [0, 1) the triangle value lies in
\* [-1, 1], and it differs from the value one quantum of phase earlier by no
\* more than the slope of a segment allows (4 quanta), so the segments join
\* without a jump
C30_TriangleContinuous ==
  probe.f = "triangle" =>
    /\ FLe(Fin(0 - One), probe.y) /\ FLe(probe.y, Fin(One))
    /\ Abs(probe.y.v - probe.yy.v) <= 4

\* C30, the part that holds: outside the third quarter of the cycle the
\* value lies in [-1, 1], in the third quarter it lies in [-2, -1), and the
\* segments join at 0.25 and at 0.75: the only jump is the one at 0.5
C30_TriangleOutsideThirdQuarter ==
  probe.f = "triangle" =>
    /\ (4 * probe.x.v < 2 * One \/ 4 * probe.x.v >= 3 * One) =>
         (FLe(Fin(0 - One), probe.y) /\ FLe(probe.y, Fin(One)))
    /\ (4 * probe.x.v >= 2 * One /\ 4 * probe.x.v < 3 * One) =>
         (FLe(Fin(0 - 2 * One), probe.y) /\ FLt(probe.y, Fin(0 - One)))
    /\ (4 * probe.x.v < 2 * One \/ 4 * (probe.x.v - 1) >= 2 * One) =>
         Abs(probe.y.v - probe.yy.v) <= 4

\* the triangle was evaluated at phase 0.75, where two segments meet at -1
C30_AtThreeQuarters ==
  /\ probe.f = "triangle"
  /\ 4 * probe.x.v = 3 * One
  /\ probe.y = Fin(0 - One)

====
